---- MODULE Spec2Model ----
(***************************************************************************)
(* Model of the satellite's overlay cache (node registry and reputation    *)
(* gated selection), satellite/satellitedb/overlaycache.go.                *)
(*                                                                         *)
(* The table overlay_cache_nodes is a sequence of rows in storage order.   *)
(* Update is split at its database statements (Open, the existence check,  *)
(* the create or update, Commit), which are the places where concurrent    *)
(* callers interleave.  FilterNodes is split at its two queries.           *)
(***************************************************************************)
EXTENDS Integers, Sequences, FiniteSets, Bags, TLC

VARIABLES
    table,      \* committed rows of overlay_cache_nodes, in storage order
    pc,         \* per caller: where its Update is
    arg,        \* per caller: the info of its Update in progress
    getErr,     \* per caller: err of the existence check of Update
    pending,    \* per caller: the uncommitted write of its transaction
    tx,         \* per caller: state of the transaction of its last Update
    outcome,    \* per caller: what its last finished Update returned
    pre,        \* per caller: the committed row of arg's id when Update was called
    calls,      \* number of Update and Delete calls started so far
    getRes,     \* result of the last Get, until the next write
    fpc,        \* where FilterNodes is
    freq,       \* the request of the FilterNodes in progress or last finished
    fproven,    \* reputableNodes of FilterNodes
    fnew,       \* newNodes of FilterNodes
    fres,       \* what the last finished FilterNodes returned
    fdirty,     \* a write was committed between the two queries of FilterNodes
    ctx,        \* per caller: the ctx of its Update: "live", "cancelled", or
                \* "usedAfterCancel" once a write statement was issued on it cancelled
    delRes,     \* what the last Delete was given, found and returned, until the
                \* next Update, lookup or enumeration
    rres,       \* result of the last GetAll, List, Paginate or GetWalletAddress
    scan,       \* the enumeration by chained List calls in progress
    raw,        \* committed rows of accounting_raws, a bag
    stamp,      \* the committed LastBandwidthTally row of accounting_timestamps, if any
    spc,        \* where SaveBWRaw is
    sarg,       \* the arguments of the SaveBWRaw in progress or last finished
    sleft,      \* the (action, node) pairs its loops have not reached yet
    swritten,   \* the pairs whose raw row its transaction has created
    sstamp,     \* the timestamp write of its transaction
    serr,       \* its named result err when it leaves the function body
    sres,       \* what the last finished SaveBWRaw returned
    stx,        \* state of the transaction of the last SaveBWRaw
    sbefore,    \* the committed accounting rows when SaveBWRaw was called
    saves       \* number of SaveBWRaw calls started so far

cacheVars == <<table, pc, arg, getErr, pending, tx, outcome, pre, calls, getRes,
               fpc, freq, fproven, fnew, fres, fdirty, ctx, delRes, rres, scan>>

acctVars == <<raw, stamp, spc, sarg, sleft, swritten, sstamp, serr, sres, stx,
              sbefore, saves>>

vars == <<cacheVars, acctVars>>

updVars == <<pc, arg, getErr, pending, tx, outcome, pre>>
filterVars == <<fpc, freq, fproven, fnew, fres, fdirty>>
readVars == <<rres, scan>>

----------------------------------------------------------------------------
(* Bounds of the model.                                                    *)

\* callers that run Update, Delete and Get concurrently
NumCallers == 2
\* non-zero node identities are 1..MaxId; 0 is the zero identity
MaxId == 1
\* Update and Delete calls started in one behaviour of concurrent callers
MaxCalls == 2
\* Update and Delete calls started in one behaviour of the single caller
MaxSeqCalls == 2

Callers == 1..NumCallers
ZeroId == 0
NodeIds == 1..MaxId

\* a nil pointer, an absent sub-group, no row
Nil == [nil |-> TRUE]

\* pb.NodeType_STORAGE, the value both selection queries bind to node_type
nodeTypeStorage == 2

----------------------------------------------------------------------------
(* pb.Node values handed to Update.                                        *)

NodeAddress(a, t) == [Address |-> a, Transport |-> t]
NodeMetadata(e, w) == [Email |-> e, Wallet |-> w]
NodeRestrictions(fb, fd) == [FreeBandwidth |-> fb, FreeDisk |-> fd]
NodeStats(id, lat, asr, ur, ac, asc, uc, usc) ==
    [NodeId |-> id, Latency_90 |-> lat, AuditSuccessRatio |-> asr,
     UptimeRatio |-> ur, AuditCount |-> ac, AuditSuccessCount |-> asc,
     UptimeCount |-> uc, UptimeSuccessCount |-> usc]
Node(id, type, addr, meta, restr, rep) ==
    [Id |-> id, Type |-> type, Address |-> addr, Metadata |-> meta,
     Restrictions |-> restr, Reputation |-> rep]

\* The k-th sample value of each sub-group (k = 1, 2); every field differs
\* between the two samples and from the defaults Update stores on creation.
\* sample 1 is a storage node, sample 2 a node of another type
SampleType(k) == IF k = 1 THEN nodeTypeStorage ELSE nodeTypeStorage - 1
SampleAddress(k) == IF k = 1 THEN NodeAddress("a1", 1) ELSE NodeAddress("a2", 2)
SampleMetadata(k) == IF k = 1 THEN NodeMetadata("e1", "w1") ELSE NodeMetadata("e2", "")
SampleRestrictions(k) == IF k = 1 THEN NodeRestrictions(5, 6) ELSE NodeRestrictions(7, -1)
SampleReputation(id, k) ==
    IF k = 1 THEN NodeStats(id, 3, 1, 1, 2, 2, 2, 2)
             ELSE NodeStats(id, 4, 2, 2, 1, 1, 1, 1)

\* The infos with identity id: each sub-group absent or present, sample k.
InfosOf(id) ==
    { Node(id, SampleType(k),
           IF a THEN SampleAddress(k) ELSE Nil,
           IF m THEN SampleMetadata(k) ELSE Nil,
           IF r THEN SampleRestrictions(k) ELSE Nil,
           IF s THEN SampleReputation(id, k) ELSE Nil) :
        k \in {1, 2}, a \in BOOLEAN, m \in BOOLEAN, r \in BOOLEAN, s \in BOOLEAN }

\* The infos with every sub-group present.
FullInfosOf(id) ==
    { i \in InfosOf(id) : i.Address # Nil /\ i.Metadata # Nil
                          /\ i.Restrictions # Nil /\ i.Reputation # Nil }

----------------------------------------------------------------------------
(* The table and the dbx statements on it.                                 *)

\* rows of the table whose node_id is id
RowsOf(t, id) == SelectSeq(t, LAMBDA r : r.NodeId = id)
HasRow(t, id) == \E i \in 1..Len(t) : t[i].NodeId = id
RowOf(t, id) == IF HasRow(t, id) THEN RowsOf(t, id)[1] ELSE Nil

\* slip: the store does not enforce the key
UniqueViolation_NotEnforced(t, id) == FALSE

\* node_id is the key of overlay_cache_nodes: an insert of a second row with
\* the same node_id is a uniqueness violation of the store.
UniqueViolation(t, id) == HasRow(t, id)

\* the table after the insert of row r
InsertRow(t, r) == Append(t, r)

\* the table after UPDATE ... WHERE node_id = r.NodeId, r being the new row
ReplaceRow(t, r) == [i \in 1..Len(t) |-> IF t[i].NodeId = r.NodeId THEN r ELSE t[i]]

\* the table after DELETE ... WHERE node_id = id
DeleteRows(t, id) == SelectSeq(t, LAMBDA r : r.NodeId # id)

\* another caller's transaction holds an uncommitted write of the row of id
LockedByOther(c, id) ==
    \E d \in Callers \ {c} : pending[d] # Nil /\ pending[d].row.NodeId = id

----------------------------------------------------------------------------
(* Update: the rows it writes.                                             *)

\* the sub-groups Update reads, with its defaults for the absent ones
AddressOrDefault(info) ==
    IF info.Address = Nil THEN NodeAddress("", 0) ELSE info.Address
MetadataOrDefault(info) ==
    IF info.Metadata = Nil THEN NodeMetadata("", "") ELSE info.Metadata
RestrictionsOrDefault(info) ==
    IF info.Restrictions = Nil THEN NodeRestrictions(-1, -1) ELSE info.Restrictions
ReputationOrDefault(info) ==
    IF info.Reputation = Nil THEN NodeStats(ZeroId, 0, 0, 0, 0, 0, 0, 0)
                             ELSE info.Reputation

\* slip: an absent reputation is created with the negative latency
CreateRow_UnknownLatency(info) ==
    [NodeId |-> info.Id,
     NodeType |-> info.Type,
     Address |-> AddressOrDefault(info).Address,
     Protocol |-> AddressOrDefault(info).Transport,
     OperatorEmail |-> MetadataOrDefault(info).Email,
     OperatorWallet |-> MetadataOrDefault(info).Wallet,
     FreeBandwidth |-> RestrictionsOrDefault(info).FreeBandwidth,
     FreeDisk |-> RestrictionsOrDefault(info).FreeDisk,
     Latency90 |-> IF info.Reputation = Nil THEN 0 - 1 ELSE info.Reputation.Latency_90,
     AuditSuccessRatio |-> ReputationOrDefault(info).AuditSuccessRatio,
     AuditUptimeRatio |-> ReputationOrDefault(info).UptimeRatio,
     AuditCount |-> ReputationOrDefault(info).AuditCount,
     AuditSuccessCount |-> ReputationOrDefault(info).AuditSuccessCount,
     UptimeCount |-> ReputationOrDefault(info).UptimeCount,
     UptimeSuccessCount |-> ReputationOrDefault(info).UptimeSuccessCount]

\* the row Create_OverlayCacheNode is called with
CreateRow(info) ==
    LET address == AddressOrDefault(info)
        metadata == MetadataOrDefault(info)
        restrictions == RestrictionsOrDefault(info)
        reputation == ReputationOrDefault(info)
    IN  [NodeId |-> info.Id,
         NodeType |-> info.Type,
         Address |-> address.Address,
         Protocol |-> address.Transport,
         OperatorEmail |-> metadata.Email,
         OperatorWallet |-> metadata.Wallet,
         FreeBandwidth |-> restrictions.FreeBandwidth,
         FreeDisk |-> restrictions.FreeDisk,
         Latency90 |-> reputation.Latency_90,
         AuditSuccessRatio |-> reputation.AuditSuccessRatio,
         AuditUptimeRatio |-> reputation.UptimeRatio,
         AuditCount |-> reputation.AuditCount,
         AuditSuccessCount |-> reputation.AuditSuccessCount,
         UptimeCount |-> reputation.UptimeCount,
         UptimeSuccessCount |-> reputation.UptimeSuccessCount]

\* building the Update_Fields dereferences info.Reputation without a nil check
UpdatePanics(info) == info.Reputation = Nil

\* slip: the update writes the defaults of the omitted metadata and
\* restrictions
UpdatedRow_DefaultsOmitted(old, info) ==
    [old EXCEPT
       !.Address = AddressOrDefault(info).Address,
       !.Protocol = AddressOrDefault(info).Transport,
       !.Latency90 = info.Reputation.Latency_90,
       !.AuditSuccessRatio = info.Reputation.AuditSuccessRatio,
       !.AuditUptimeRatio = info.Reputation.UptimeRatio,
       !.AuditCount = info.Reputation.AuditCount,
       !.AuditSuccessCount = info.Reputation.AuditSuccessCount,
       !.UptimeCount = info.Reputation.UptimeCount,
       !.UptimeSuccessCount = info.Reputation.UptimeSuccessCount,
       !.OperatorEmail = MetadataOrDefault(info).Email,
       !.OperatorWallet = MetadataOrDefault(info).Wallet,
       !.FreeBandwidth = RestrictionsOrDefault(info).FreeBandwidth,
       !.FreeDisk = RestrictionsOrDefault(info).FreeDisk]

\* slip: the node type is among the fields of the update
UpdatedRow_WritesType(old, info) ==
    [old EXCEPT
       !.NodeType = info.Type,
       !.Address = AddressOrDefault(info).Address,
       !.Protocol = AddressOrDefault(info).Transport,
       !.Latency90 = info.Reputation.Latency_90,
       !.AuditSuccessRatio = info.Reputation.AuditSuccessRatio,
       !.AuditUptimeRatio = info.Reputation.UptimeRatio,
       !.AuditCount = info.Reputation.AuditCount,
       !.AuditSuccessCount = info.Reputation.AuditSuccessCount,
       !.UptimeCount = info.Reputation.UptimeCount,
       !.UptimeSuccessCount = info.Reputation.UptimeSuccessCount,
       !.OperatorEmail = IF info.Metadata # Nil THEN info.Metadata.Email ELSE @,
       !.OperatorWallet = IF info.Metadata # Nil THEN info.Metadata.Wallet ELSE @,
       !.FreeBandwidth = IF info.Restrictions # Nil
                            THEN info.Restrictions.FreeBandwidth ELSE @,
       !.FreeDisk = IF info.Restrictions # Nil THEN info.Restrictions.FreeDisk ELSE @]

\* slip: the update leaves the operator fields out
UpdatedRow_SkipsMetadata(old, info) ==
    [old EXCEPT
       !.Address = AddressOrDefault(info).Address,
       !.Protocol = AddressOrDefault(info).Transport,
       !.Latency90 = info.Reputation.Latency_90,
       !.AuditSuccessRatio = info.Reputation.AuditSuccessRatio,
       !.AuditUptimeRatio = info.Reputation.UptimeRatio,
       !.AuditCount = info.Reputation.AuditCount,
       !.AuditSuccessCount = info.Reputation.AuditSuccessCount,
       !.UptimeCount = info.Reputation.UptimeCount,
       !.UptimeSuccessCount = info.Reputation.UptimeSuccessCount,
       !.FreeBandwidth = IF info.Restrictions # Nil
                            THEN info.Restrictions.FreeBandwidth ELSE @,
       !.FreeDisk = IF info.Restrictions # Nil THEN info.Restrictions.FreeDisk ELSE @]

\* the row old after Update_OverlayCacheNode_By_NodeId with the fields Update
\* sets: address and reputation always, metadata and restrictions when present;
\* node_id and node_type are not among the fields
UpdatedRow(old, info) ==
    LET address == AddressOrDefault(info)
        restrictions == RestrictionsOrDefault(info)
    IN  [old EXCEPT
           !.Address = address.Address,
           !.Protocol = address.Transport,
           !.Latency90 = info.Reputation.Latency_90,
           !.AuditSuccessRatio = info.Reputation.AuditSuccessRatio,
           !.AuditUptimeRatio = info.Reputation.UptimeRatio,
           !.AuditCount = info.Reputation.AuditCount,
           !.AuditSuccessCount = info.Reputation.AuditSuccessCount,
           !.UptimeCount = info.Reputation.UptimeCount,
           !.UptimeSuccessCount = info.Reputation.UptimeSuccessCount,
           !.OperatorEmail = IF info.Metadata # Nil THEN info.Metadata.Email ELSE @,
           !.OperatorWallet = IF info.Metadata # Nil THEN info.Metadata.Wallet ELSE @,
           !.FreeBandwidth = IF info.Restrictions # Nil THEN restrictions.FreeBandwidth ELSE @,
           !.FreeDisk = IF info.Restrictions # Nil THEN restrictions.FreeDisk ELSE @]

----------------------------------------------------------------------------
(* convertOverlayNode: a stored row as the pb.Node handed to callers.      *)

\* slip: one empty operator field, or one negative floor, clears its sub-group
convertOverlayNode_EitherEmpty(info) ==
    LET node == Node(info.NodeId, info.NodeType,
                     NodeAddress(info.Address, info.Protocol),
                     NodeMetadata(info.OperatorEmail, info.OperatorWallet),
                     NodeRestrictions(info.FreeBandwidth, info.FreeDisk),
                     NodeStats(info.NodeId, info.Latency90, info.AuditSuccessRatio,
                               info.AuditUptimeRatio, info.AuditCount,
                               info.AuditSuccessCount, info.UptimeCount,
                               info.UptimeSuccessCount))
    IN  [node EXCEPT
           !.Address = IF node.Address.Address = "" THEN Nil ELSE @,
           !.Metadata = IF node.Metadata.Email = "" \/ node.Metadata.Wallet = ""
                        THEN Nil ELSE @,
           !.Restrictions = IF node.Restrictions.FreeBandwidth < 0
                               \/ node.Restrictions.FreeDisk < 0
                            THEN Nil ELSE @,
           !.Reputation = IF node.Reputation.Latency_90 < 0 THEN Nil ELSE @]

convertOverlayNode(info) ==
    LET node == Node(info.NodeId, info.NodeType,
                     NodeAddress(info.Address, info.Protocol),
                     NodeMetadata(info.OperatorEmail, info.OperatorWallet),
                     NodeRestrictions(info.FreeBandwidth, info.FreeDisk),
                     NodeStats(info.NodeId, info.Latency90, info.AuditSuccessRatio,
                               info.AuditUptimeRatio, info.AuditCount,
                               info.AuditSuccessCount, info.UptimeCount,
                               info.UptimeSuccessCount))
    IN  [node EXCEPT
           !.Address = IF node.Address.Address = "" THEN Nil ELSE @,
           !.Metadata = IF node.Metadata.Email = "" /\ node.Metadata.Wallet = ""
                        THEN Nil ELSE @,
           !.Restrictions = IF node.Restrictions.FreeBandwidth < 0
                               /\ node.Restrictions.FreeDisk < 0
                            THEN Nil ELSE @,
           !.Reputation = IF node.Reputation.Latency_90 < 0 THEN Nil ELSE @]

----------------------------------------------------------------------------
(* Update, one action per database statement.                              *)

\* the call ends: what it returned and what became of its transaction
Finish(c, result, txState) ==
    /\ pc' = [pc EXCEPT ![c] = "idle"]
    /\ outcome' = [outcome EXCEPT ![c] = result]
    /\ tx' = [tx EXCEPT ![c] = txState]
    /\ pending' = [pending EXCEPT ![c] = Nil]

\* slip: only the nil pointer is refused
EmptyNode_NilOnly(info) == info = Nil

\* the argument check of Update: info == nil || info.Id.IsZero()
EmptyNode(info) == info = Nil \/ info.Id = ZeroId

\* Update is called with info (Nil is the nil pointer): the argument check and
\* cache.db.Open
UpdateCall(c, info) ==
    /\ pc[c] = "idle"
    /\ calls' = calls + 1
    /\ getRes' = Nil
    /\ arg' = [arg EXCEPT ![c] = info]
    /\ getErr' = [getErr EXCEPT ![c] = "none"]
    /\ pre' = [pre EXCEPT ![c] = IF info = Nil THEN Nil ELSE RowOf(table, info.Id)]
    /\ ctx' = [ctx EXCEPT ![c] = "live"]
    /\ delRes' = Nil
    /\ UNCHANGED <<table, filterVars, readVars>>
    /\ IF EmptyNode(info)
          THEN Finish(c, "ErrEmptyNode", "none")
          ELSE \/ Finish(c, "OpenErr", "none")
               \/ /\ pc' = [pc EXCEPT ![c] = "opened"]
                  /\ outcome' = [outcome EXCEPT ![c] = "none"]
                  /\ tx' = [tx EXCEPT ![c] = "open"]
                  /\ UNCHANGED pending
    /\ UNCHANGED acctVars

\* tx.Get_OverlayCacheNode_By_NodeId: the existence check; its err is nil when
\* the row is there, sql.ErrNoRows when it is not, or an error of the store,
\* which on a cancelled ctx is the error of the ctx
UpdateGet(c) ==
    /\ pc[c] = "opened"
    /\ pc' = [pc EXCEPT ![c] = "checked"]
    /\ \/ /\ ctx[c] = "live"
          /\ getErr' = [getErr EXCEPT ![c] =
                           IF HasRow(table, arg[c].Id) THEN "nil" ELSE "norows"]
       \/ /\ ctx[c] = "live"
          /\ getErr' = [getErr EXCEPT ![c] = "ioerr"]
       \/ /\ ctx[c] # "live"
          /\ getErr' = [getErr EXCEPT ![c] = "cancelled"]
    /\ UNCHANGED <<table, arg, pending, tx, outcome, pre, calls, getRes, filterVars,
                   ctx, delRes, readVars>>
    /\ UNCHANGED acctVars

\* a write statement issued on the cancelled ctx of caller c
UsedAfterCancel(c) == [ctx EXCEPT ![c] = "usedAfterCancel"]

\* err != nil after the existence check, whatever the error: the statement
\* tx.Create_OverlayCacheNode, and on its failure the rollback.  On a cancelled
\* ctx the statement fails with the error of the ctx.
UpdateCreate(c) ==
    /\ pc[c] = "checked"
    /\ getErr[c] # "nil"
    /\ \/ /\ ctx[c] = "live"
          /\ ~LockedByOther(c, arg[c].Id)
          /\ \/ /\ UniqueViolation(table, arg[c].Id)
                /\ Finish(c, "UniqueViolation", "rolledback")
             \/ Finish(c, "CreateErr", "rolledback")
             \/ /\ ~UniqueViolation(table, arg[c].Id)
                /\ pc' = [pc EXCEPT ![c] = "written"]
                /\ pending' = [pending EXCEPT ![c] =
                                  [kind |-> "insert", row |-> CreateRow(arg[c])]]
                /\ UNCHANGED <<outcome, tx>>
          /\ UNCHANGED ctx
       \/ /\ ctx[c] # "live"
          /\ Finish(c, "Cancelled", "rolledback")
          /\ ctx' = UsedAfterCancel(c)
    /\ UNCHANGED <<table, arg, getErr, pre, calls, getRes, filterVars, delRes, readVars>>
    /\ UNCHANGED acctVars

\* err == nil after the existence check: the Update_Fields are built, which
\* panics on a nil info.Reputation and leaves the transaction open; otherwise
\* tx.Update_OverlayCacheNode_By_NodeId, and on its failure the rollback.  The
\* statement changes nothing when the row is gone by now, and fails with the
\* error of the ctx when the ctx is cancelled.
UpdateUpdate(c) ==
    /\ pc[c] = "checked"
    /\ getErr[c] = "nil"
    /\ \/ /\ UpdatePanics(arg[c])
          /\ pc' = [pc EXCEPT ![c] = "panicked"]
          /\ outcome' = [outcome EXCEPT ![c] = "panic"]
          /\ UNCHANGED <<tx, pending, ctx>>
       \/ /\ ~UpdatePanics(arg[c])
          /\ ctx[c] = "live"
          /\ ~LockedByOther(c, arg[c].Id)
          /\ Finish(c, "UpdateErr", "rolledback")
          /\ UNCHANGED ctx
       \/ /\ ~UpdatePanics(arg[c])
          /\ ctx[c] = "live"
          /\ ~LockedByOther(c, arg[c].Id)
          /\ pc' = [pc EXCEPT ![c] = "written"]
          /\ pending' = [pending EXCEPT ![c] =
                IF HasRow(table, arg[c].Id)
                   THEN [kind |-> "update",
                         row |-> UpdatedRow(RowOf(table, arg[c].Id), arg[c])]
                   ELSE Nil]
          /\ UNCHANGED <<outcome, tx, ctx>>
       \/ /\ ~UpdatePanics(arg[c])
          /\ ctx[c] # "live"
          /\ Finish(c, "Cancelled", "rolledback")
          /\ ctx' = UsedAfterCancel(c)
    /\ UNCHANGED <<table, arg, getErr, pre, calls, getRes, filterVars, delRes, readVars>>
    /\ UNCHANGED acctVars

\* the table after the write w of a transaction is committed
Committed(t, w) ==
    IF w = Nil THEN t
    ELSE IF w.kind = "insert" THEN InsertRow(t, w.row)
    ELSE ReplaceRow(t, w.row)

\* a committed write falls between the two queries of a FilterNodes
DirtyAfterWrite == fdirty \/ fpc = "proven"

\* slip: a commit that reports an error has made the write all the same
UpdateCommit_FailedCommitWrites(c) ==
    /\ pc[c] = "written"
    /\ table' = Committed(table, pending[c])
    /\ fdirty' = DirtyAfterWrite
    /\ \/ Finish(c, "ok", "committed")
       \/ /\ ctx[c] = "live"
          /\ Finish(c, "CommitErr", "aborted")
       \/ /\ ctx[c] # "live"
          /\ Finish(c, "Cancelled", "aborted")
    /\ ctx' = IF ctx[c] = "live" THEN ctx ELSE UsedAfterCancel(c)
    /\ getRes' = Nil
    /\ rres' = Nil
    /\ scan' = Nil
    /\ delRes' = Nil
    /\ UNCHANGED <<arg, getErr, pre, calls, fpc, freq, fproven, fnew, fres>>
    /\ UNCHANGED acctVars

\* tx.Commit, which Update calls without a look at the ctx.  Whether a
\* transaction follows the ctx it was opened under is the store's: on a
\* cancelled ctx the commit either goes through or fails with the error of the
\* ctx, the transaction undone.
UpdateCommit(c) ==
    /\ pc[c] = "written"
    /\ \/ /\ table' = Committed(table, pending[c])
          /\ fdirty' = DirtyAfterWrite
          /\ Finish(c, "ok", "committed")
       \/ /\ ctx[c] = "live"
          /\ Finish(c, "CommitErr", "aborted")
          /\ UNCHANGED <<table, fdirty>>
       \/ /\ ctx[c] # "live"
          /\ Finish(c, "Cancelled", "aborted")
          /\ UNCHANGED <<table, fdirty>>
    /\ ctx' = IF ctx[c] = "live" THEN ctx ELSE UsedAfterCancel(c)
    /\ getRes' = Nil
    /\ rres' = Nil
    /\ scan' = Nil
    /\ delRes' = Nil
    /\ UNCHANGED <<arg, getErr, pre, calls, fpc, freq, fproven, fnew, fres>>
    /\ UNCHANGED acctVars

\* the caller's cancellation signal fires while Update is inside its
\* transaction
Cancel(c) ==
    /\ pc[c] \in {"opened", "checked", "written"}
    /\ ctx[c] = "live"
    /\ ctx' = [ctx EXCEPT ![c] = "cancelled"]
    /\ UNCHANGED <<table, updVars, calls, getRes, filterVars, delRes, readVars>>
    /\ UNCHANGED acctVars

----------------------------------------------------------------------------
(* Delete and Get.                                                         *)

\* slip: a Delete that finds no row is an error
DeleteResult_AbsentIsError(t, id) ==
    [table |-> DeleteRows(t, id),
     err |-> IF HasRow(t, id) THEN "nil" ELSE "ErrNodeNotFound"]

\* slip: the statement is issued without its WHERE clause
DeleteResult_DeletesAll(t, id) == [table |-> <<>>, err |-> "nil"]

\* Delete when the store answers: the table after the statement, and its err,
\* which Delete returns; the count of deleted rows is dropped
DeleteResult(t, id) == [table |-> DeleteRows(t, id), err |-> "nil"]

\* Delete_OverlayCacheNode_By_NodeId, a statement of its own, which may fail
Delete(c, id) ==
    /\ pc[c] = "idle"
    /\ calls' = calls + 1
    /\ \/ /\ ~LockedByOther(c, id)
          /\ table' = DeleteResult(table, id).table
          /\ delRes' = [id |-> id, before |-> table, answered |-> TRUE,
                        err |-> DeleteResult(table, id).err]
          /\ fdirty' = DirtyAfterWrite
       \/ /\ delRes' = [id |-> id, before |-> table, answered |-> FALSE,
                        err |-> "StoreErr"]
          /\ UNCHANGED <<table, fdirty>>
    /\ arg' = [arg EXCEPT ![c] = Nil]
    /\ outcome' = [outcome EXCEPT ![c] = "none"]
    /\ getRes' = Nil
    /\ rres' = Nil
    /\ scan' = Nil
    /\ UNCHANGED <<pc, getErr, pending, tx, pre, fpc, freq, fproven, fnew, fres, ctx>>
    /\ UNCHANGED acctVars

\* slip: the zero identity is looked up like any other
GetResult_ZeroIsLookedUp(t, id) ==
    IF ~HasRow(t, id) THEN [id |-> id, node |-> Nil, err |-> "ErrNodeNotFound"]
    ELSE [id |-> id, node |-> convertOverlayNode(RowOf(t, id)), err |-> "nil"]

\* what Get returns on table t
GetResult(t, id) ==
    IF id = ZeroId THEN [id |-> id, node |-> Nil, err |-> "ErrEmptyNode"]
    ELSE IF ~HasRow(t, id) THEN [id |-> id, node |-> Nil, err |-> "ErrNodeNotFound"]
    ELSE [id |-> id, node |-> convertOverlayNode(RowOf(t, id)), err |-> "nil"]

\* slip: Get of an identity that has no row stores an empty row for it
Get_CreatesMissing(c, id) ==
    /\ pc[c] = "idle"
    /\ \/ getRes' = GetResult(table, id)
       \/ /\ id # ZeroId
          /\ getRes' = [id |-> id, node |-> Nil, err |-> "StoreErr"]
    /\ table' = IF id # ZeroId /\ ~HasRow(table, id)
                   THEN InsertRow(table, CreateRow(Node(id, nodeTypeStorage, Nil, Nil, Nil, Nil)))
                   ELSE table
    /\ UNCHANGED <<updVars, calls, filterVars, ctx, delRes, readVars>>
    /\ UNCHANGED acctVars

Get(c, id) ==
    /\ pc[c] = "idle"
    /\ \/ getRes' = GetResult(table, id)
       \/ /\ id # ZeroId
          /\ getRes' = [id |-> id, node |-> Nil, err |-> "StoreErr"]
    /\ UNCHANGED <<table, updVars, calls, filterVars, ctx, delRes, readVars>>
    /\ UNCHANGED acctVars

----------------------------------------------------------------------------
(* GetAll, List, Paginate and GetWalletAddress.                            *)

\* storage.LookupLimit, the most rows one List or Paginate asks the store for
LookupLimit == 3

\* the identities of s in ascending order
RECURSIVE Ascending(_)
Ascending(S) ==
    IF S = {} THEN <<>>
    ELSE LET m == CHOOSE x \in S : \A y \in S : x <= y
         IN  <<m>> \o Ascending(S \ {m})

\* the identities that have a row in t
StoredIds(t) == { t[i].NodeId : i \in 1..Len(t) }

\* at most n elements of s after the first k
LimitOffset(s, n, k) ==
    IF k >= Len(s) THEN <<>>
    ELSE SubSeq(s, k + 1, IF k + n < Len(s) THEN k + n ELSE Len(s))

\* Limited_OverlayCacheNode_By_NodeId_GreaterOrEqual: the rows whose node_id is
\* at least cursor, by ascending node_id, at most limit of them after the
\* first offset
LimitedByNodeIdGreaterOrEqual(t, cursor, limit, offset) ==
    LET ids == Ascending({ id \in StoredIds(t) : id >= cursor })
        page == LimitOffset(ids, limit, offset)
    IN  [i \in 1..Len(page) |-> RowOf(t, page[i])]

\* slip: a limit above storage.LookupLimit is passed on as it is
ClampedLimit_KeepsOverMax(limit) == IF limit <= 0 THEN LookupLimit ELSE limit

\* limit as List and Paginate pass it to the store
ClampedLimit(limit) ==
    IF limit <= 0 \/ limit > LookupLimit THEN LookupLimit ELSE limit

\* the rows converted, in the order the store gave them
ConvertAll(rows) == [i \in 1..Len(rows) |-> convertOverlayNode(rows[i])]

\* slip: List passes offset 1
ListResult_SkipsOne(t, cursor, limit) ==
    [nodes |-> ConvertAll(LimitedByNodeIdGreaterOrEqual(
                              t, cursor, ClampedLimit(limit), 1)),
     err |-> "nil"]

\* what List returns when the store answers
ListResult(t, cursor, limit) ==
    [nodes |-> ConvertAll(LimitedByNodeIdGreaterOrEqual(
                              t, cursor, ClampedLimit(limit), 0)),
     err |-> "nil"]

List(c, cursor, limit) ==
    /\ pc[c] = "idle"
    /\ \/ rres' = [op |-> "List", cursor |-> cursor, limit |-> limit]
                  @@ ListResult(table, cursor, limit)
       \/ rres' = [op |-> "List", cursor |-> cursor, limit |-> limit,
                   nodes |-> Nil, err |-> "StoreErr"]
    /\ scan' = Nil
    /\ delRes' = Nil
    /\ UNCHANGED <<table, updVars, calls, getRes, filterVars, ctx>>
    /\ UNCHANGED acctVars

\* slip: a short page still reports more
PaginateResult_MoreOnShortPage(t, offset, limit) ==
    LET rows == LimitedByNodeIdGreaterOrEqual(t, ZeroId, ClampedLimit(limit), offset)
    IN  [nodes |-> ConvertAll(rows), more |-> Len(rows) > 0, err |-> "nil"]

\* what Paginate returns when the store answers: the cursor is the zero
\* identity, more is false when the store gave fewer rows than the limit
PaginateResult(t, offset, limit) ==
    LET rows == LimitedByNodeIdGreaterOrEqual(t, ZeroId, ClampedLimit(limit), offset)
    IN  [nodes |-> ConvertAll(rows),
         more |-> ~(Len(rows) < ClampedLimit(limit)),
         err |-> "nil"]

Paginate(c, offset, limit) ==
    /\ pc[c] = "idle"
    /\ \/ rres' = [op |-> "Paginate", offset |-> offset, limit |-> limit]
                  @@ PaginateResult(table, offset, limit)
       \/ rres' = [op |-> "Paginate", offset |-> offset, limit |-> limit,
                   nodes |-> Nil, more |-> FALSE, err |-> "StoreErr"]
    /\ scan' = Nil
    /\ delRes' = Nil
    /\ UNCHANGED <<table, updVars, calls, getRes, filterVars, ctx>>
    /\ UNCHANGED acctVars

\* slip: GetAll stops at the first failed lookup
GetAllResult_StopsAtFailure(t, ids, failed) ==
    [nodes |-> [i \in 1..Len(ids) |->
                   IF \E j \in 1..i : j \in failed \/ GetResult(t, ids[j]).err # "nil"
                      THEN Nil ELSE GetResult(t, ids[i]).node],
     err |-> "nil"]

\* what GetAll returns: one Get per position, a position whose Get returned an
\* error is left nil; failed are the positions where the store failed
GetAllResult(t, ids, failed) ==
    [nodes |-> [i \in 1..Len(ids) |->
                   IF i \in failed \/ GetResult(t, ids[i]).err # "nil"
                      THEN Nil ELSE GetResult(t, ids[i]).node],
     err |-> "nil"]

\* the store answers every lookup, or fails the lookup of the first node
GetAll(c, ids) ==
    /\ pc[c] = "idle"
    /\ \E failed \in {{}, { i \in 1..Len(ids) : ids[i] = 1 }} :
          rres' = [op |-> "GetAll", ids |-> ids, failed |-> failed]
                  @@ GetAllResult(table, ids, failed)
    /\ scan' = Nil
    /\ delRes' = Nil
    /\ UNCHANGED <<table, updVars, calls, getRes, filterVars, ctx>>
    /\ UNCHANGED acctVars

\* what GetWalletAddress returns when the store answers:
\* Get_OverlayCacheNode_OperatorWallet_By_NodeId gives sql.ErrNoRows when there
\* is no row, and the operator_wallet column of the row otherwise
WalletResult(t, id) ==
    IF HasRow(t, id) THEN [wallet |-> RowOf(t, id).OperatorWallet, err |-> "nil"]
    ELSE [wallet |-> "", err |-> "ErrNoRows"]

GetWalletAddress(c, id) ==
    /\ pc[c] = "idle"
    /\ \/ rres' = [op |-> "GetWalletAddress", id |-> id] @@ WalletResult(table, id)
       \/ rres' = [op |-> "GetWalletAddress", id |-> id, wallet |-> "",
                   err |-> "StoreErr"]
    /\ scan' = Nil
    /\ delRes' = Nil
    /\ UNCHANGED <<table, updVars, calls, getRes, filterVars, ctx>>
    /\ UNCHANGED acctVars

\* An enumeration of the registry by List: it starts at the zero identity, the
\* minimal one, and each further call passes the last returned identity plus
\* one, until a page comes back empty.
ScanStart(c, limit) ==
    /\ pc[c] = "idle"
    /\ scan' = [limit |-> limit, cursor |-> ZeroId, seen |-> <<>>, done |-> FALSE]
    /\ rres' = Nil
    /\ delRes' = Nil
    /\ UNCHANGED <<table, updVars, calls, getRes, filterVars, ctx>>
    /\ UNCHANGED acctVars

ScanStep(c) ==
    /\ pc[c] = "idle"
    /\ scan # Nil
    /\ ~scan.done
    /\ \/ LET res == ListResult(table, scan.cursor, scan.limit)
              n == Len(res.nodes)
          IN  /\ rres' = [op |-> "List", cursor |-> scan.cursor,
                          limit |-> scan.limit] @@ res
              /\ scan' = IF n = 0 THEN [scan EXCEPT !.done = TRUE]
                         ELSE [scan EXCEPT
                                 !.cursor = res.nodes[n].Id + 1,
                                 !.seen = @ \o [i \in 1..n |-> res.nodes[i].Id]]
       \/ /\ rres' = [op |-> "List", cursor |-> scan.cursor, limit |-> scan.limit,
                      nodes |-> Nil, err |-> "StoreErr"]
          /\ scan' = Nil
    /\ delRes' = Nil
    /\ UNCHANGED <<table, updVars, calls, getRes, filterVars, ctx>>
    /\ UNCHANGED acctVars

----------------------------------------------------------------------------
(* Specifications.                                                         *)

\* no accounting row, no SaveBWRaw called yet
AcctQuiet ==
    /\ raw = EmptyBag
    /\ stamp = Nil
    /\ spc = "idle"
    /\ sarg = Nil
    /\ sleft = {}
    /\ swritten = {}
    /\ sstamp = Nil
    /\ serr = "nil"
    /\ sres = "none"
    /\ stx = "none"
    /\ sbefore = Nil
    /\ saves = 0

\* nobody in a call
Quiet ==
    /\ pc = [c \in Callers |-> "idle"]
    /\ arg = [c \in Callers |-> Nil]
    /\ getErr = [c \in Callers |-> "none"]
    /\ pending = [c \in Callers |-> Nil]
    /\ tx = [c \in Callers |-> "none"]
    /\ outcome = [c \in Callers |-> "none"]
    /\ pre = [c \in Callers |-> Nil]
    /\ calls = 0
    /\ getRes = Nil
    /\ fpc = "idle"
    /\ freq = Nil
    /\ fproven = <<>>
    /\ fnew = <<>>
    /\ fres = Nil
    /\ fdirty = FALSE
    /\ ctx = [c \in Callers |-> "live"]
    /\ delRes = Nil
    /\ rres = Nil
    /\ scan = Nil
    /\ AcctQuiet

\* an empty registry, nobody in a call
Init == table = <<>> /\ Quiet

\* the infos with identity id that the single caller reports: every
\* combination of sub-groups of sample 1, and the full report of sample 2
ReportsOf(id) ==
    { i \in InfosOf(id) : i.Type = SampleType(1) } \cup
    { i \in FullInfosOf(id) : i.Type = SampleType(2) }

\* the infos of the concurrent callers: the full report of sample 1, the zero
\* identity, nil
ConcInfos ==
    {Nil, Node(ZeroId, SampleType(1), Nil, Nil, Nil, Nil)}
    \cup UNION { { i \in FullInfosOf(id) : i.Type = SampleType(1) } : id \in NodeIds }

\* Concurrent callers of Update, Delete and Get.
Next ==
    \E c \in Callers :
        \/ \E info \in ConcInfos : calls < MaxCalls /\ UpdateCall(c, info)
        \/ UpdateGet(c)
        \/ UpdateCreate(c)
        \/ UpdateUpdate(c)
        \/ UpdateCommit(c)
        \/ \E id \in {ZeroId} \cup NodeIds : calls < MaxCalls /\ Delete(c, id)
        \/ \E id \in {ZeroId} \cup NodeIds : Get(c, id)

Spec == Init /\ [][Next]_vars

\* the infos of the single caller
SeqInfos ==
    {Nil, Node(ZeroId, SampleType(1), Nil, Nil, Nil, Nil)}
    \cup UNION { ReportsOf(id) : id \in NodeIds }

\* One caller, one call at a time.
NextSeq ==
    \E c \in {1} :
        \/ \E info \in SeqInfos : calls < MaxSeqCalls /\ UpdateCall(c, info)
        \/ UpdateGet(c)
        \/ UpdateCreate(c)
        \/ UpdateUpdate(c)
        \/ UpdateCommit(c)
        \/ \E id \in {ZeroId} \cup NodeIds : calls < MaxSeqCalls /\ Delete(c, id)
        \/ \E id \in {ZeroId} \cup NodeIds : Get(c, id)

SpecSeq == Init /\ [][NextSeq]_vars

\* One caller whose ctx may be cancelled while its Update is inside the
\* transaction.
NextCancel ==
    \E c \in {1} :
        \/ \E info \in ConcInfos : calls < MaxSeqCalls /\ UpdateCall(c, info)
        \/ UpdateGet(c)
        \/ UpdateCreate(c)
        \/ UpdateUpdate(c)
        \/ UpdateCommit(c)
        \/ Cancel(c)
        \/ \E id \in NodeIds : calls < MaxSeqCalls /\ Delete(c, id)
        \/ \E id \in NodeIds : Get(c, id)

SpecCancel == Init /\ [][NextCancel]_vars

----------------------------------------------------------------------------
(* The registries and inputs of the lookup and enumeration specification.  *)

\* stored nodes have identities among 1..MaxPop
MaxPop == 5
\* Delete calls in one behaviour
MaxDeletes == 2
\* GetAll is given at most MaxBatch identities, each of 0..MaxBatchId, which
\* are the identities of the lookup specification
MaxBatch == 3
MaxBatchId == 3

\* What was reported of the stored node id: every third node a full report
\* with a wallet, the next nothing but its identity, the next a full report
\* with an operator email and no wallet.
StoredInfo(id) ==
    CASE id % 3 = 1 -> Node(id, SampleType(1), SampleAddress(1), SampleMetadata(1),
                            SampleRestrictions(1), SampleReputation(id, 1))
      [] id % 3 = 2 -> Node(id, SampleType(1), Nil, Nil, Nil, Nil)
      [] OTHER      -> Node(id, SampleType(2), SampleAddress(2), SampleMetadata(2),
                            SampleRestrictions(2), SampleReputation(id, 2))

\* the registry of the nodes S, created in descending order of identity
RECURSIVE Descending(_)
Descending(S) ==
    IF S = {} THEN <<>>
    ELSE LET m == CHOOSE x \in S : \A y \in S : x >= y
         IN  <<CreateRow(StoredInfo(m))>> \o Descending(S \ {m})

StoreTables == { Descending(S) : S \in SUBSET (1..MaxPop) }

\* cursors, offsets and limits handed to List and Paginate
Cursors == 0..(MaxPop + 1)
Offsets == 0..MaxPop
Limits == 0..(LookupLimit + 1)

InitStore == table \in StoreTables /\ Quiet

\* One caller enumerating a populated registry.
NextStore ==
    \E c \in {1} :
        \/ \E cursor \in Cursors, limit \in Limits : List(c, cursor, limit)
        \/ \E offset \in Offsets, limit \in Limits : Paginate(c, offset, limit)
        \/ \E limit \in 1..(LookupLimit + 1) : ScanStart(c, limit)
        \/ ScanStep(c)

SpecStore == InitStore /\ [][NextStore]_vars

LookupTables == { Descending(S) : S \in SUBSET (1..MaxBatchId) }

\* the identity lists handed to GetAll: no identity twice
Batches ==
    { ids \in UNION { [1..n -> 0..MaxBatchId] : n \in 0..MaxBatch } :
        \A i, j \in 1..Len(ids) : ids[i] = ids[j] => i = j }

InitLookup == table \in LookupTables /\ Quiet

\* One caller looking up on a populated registry.
NextLookup ==
    \E c \in {1} :
        \/ \E ids \in Batches : GetAll(c, ids)
        \/ \E id \in 0..MaxBatchId : GetWalletAddress(c, id)

SpecLookup == InitLookup /\ [][NextLookup]_vars

\* One caller deleting and getting on a populated registry.
NextDelete ==
    \E c \in {1} :
        \/ \E id \in 0..MaxBatchId : calls < MaxDeletes /\ Delete(c, id)
        \/ \E id \in 0..MaxBatchId : Get(c, id)

SpecDelete == InitLookup /\ [][NextDelete]_vars

----------------------------------------------------------------------------
(* The stored rows of the conversion specification.                        *)

\* The reports that created them: an address absent, empty or given; operator
\* email and wallet each empty or given; each floor unknown, zero or positive;
\* a latency negative, zero or positive.
ConvertInfos ==
    { Node(1, SampleType(1), a, m, r, s) :
        a \in {Nil, NodeAddress("", 1), SampleAddress(1)},
        m \in {Nil} \cup { NodeMetadata(e, w) : e \in {"", "e1"}, w \in {"", "w1"} },
        r \in {Nil} \cup { NodeRestrictions(fb, fd) :
                             fb \in {0 - 1, 0, 5}, fd \in {0 - 1, 0, 5} },
        s \in {Nil} \cup { NodeStats(1, lat, 1, 1, 2, 2, 2, 2) : lat \in {0 - 1, 0, 3} } }

ConvertTables == { <<CreateRow(info)>> : info \in ConvertInfos }

InitConvert == table \in ConvertTables /\ Quiet

\* One caller getting the stored node.
NextConvert == \E c \in {1} : \E id \in {1} : Get(c, id)

SpecConvert == InitConvert /\ [][NextConvert]_vars

----------------------------------------------------------------------------
(* FilterNodes.                                                            *)

\* denominator of the NewNodePercentage values: the percentages are
\* 0/PctDen .. PctDen/PctDen
PctDen == 2

\* reputableNodeAmount of FilterNodes
ReputableNodeAmount(req) == IF req.MinNodes <= 0 THEN req.Amount ELSE req.MinNodes

\* slip: the percentage is left out of the new-node amount
NewNodeAmount_NoPercentage(req) == ReputableNodeAmount(req)

\* newNodeAmount of FilterNodes: int64(float64(reputableNodeAmount) *
\* NewNodePercentage), the percentage being req.NewNodePercentage / PctDen
NewNodeAmount(req) == (ReputableNodeAmount(req) * req.NewNodePercentage) \div PctDen

\* FilterNodes dereferences req.Opts.GetRestrictions() and, in the first
\* query, req.MinReputation without a nil check
RequestPanics(req) == req.Restrictions = Nil \/ req.MinReputation = Nil

\* slip: the exclusion list is left out of the query
NotInExcluded_Dropped(id, excluded) == TRUE

\* slip: an empty exclusion list makes the condition fail for every row
NotInExcluded_EmptyExcludesAll(id, excluded) == excluded # {} /\ id \notin excluded

\* node_id NOT IN (?, ..., ?) with the excluded identities as arguments; with
\* no excluded identity the list is empty and the condition holds of every row
NotInExcluded(id, excluded) == id \notin excluded

\* slip: the new-node threshold is left out of the audit count of a proven node
ReputableAuditCount_MinimumOnly(req) == req.MinReputation.AuditCount

\* auditCount of findReputableNodesQuery
ReputableAuditCount(req) ==
    IF req.NewNodeAuditThreshold > req.MinReputation.AuditCount
       THEN req.NewNodeAuditThreshold ELSE req.MinReputation.AuditCount

\* the conditions of findReputableNodesQuery on the columns of a row
ReputableFloors(r, req) ==
    /\ r.AuditCount >= ReputableAuditCount(req)
    /\ r.AuditSuccessRatio >= req.MinReputation.AuditSuccessRatio
    /\ r.UptimeCount >= req.MinReputation.UptimeCount
    /\ r.AuditUptimeRatio >= req.MinReputation.UptimeRatio
    /\ r.FreeBandwidth >= req.Restrictions.FreeBandwidth
    /\ r.FreeDisk >= req.Restrictions.FreeDisk
    /\ r.NodeType = nodeTypeStorage

\* the WHERE clause of findReputableNodesQuery
ReputableRow(r, req) ==
    NotInExcluded(r.NodeId, req.ExcludedNodes) /\ ReputableFloors(r, req)

\* slip: the minimum audit success ratio is asked of new nodes too
NewFloors_AppliesReputation(r, req) ==
    /\ r.AuditCount < req.NewNodeAuditThreshold
    /\ r.AuditSuccessRatio >= req.MinReputation.AuditSuccessRatio
    /\ r.FreeBandwidth >= req.Restrictions.FreeBandwidth
    /\ r.FreeDisk >= req.Restrictions.FreeDisk
    /\ r.NodeType = nodeTypeStorage

\* slip: the audit count is left out of the conditions of a new node
NewFloors_NoAuditBound(r, req) ==
    /\ r.FreeBandwidth >= req.Restrictions.FreeBandwidth
    /\ r.FreeDisk >= req.Restrictions.FreeDisk
    /\ r.NodeType = nodeTypeStorage

\* slip: audit_count <= ? in place of audit_count < ?
NewFloors_AtThreshold(r, req) ==
    /\ r.AuditCount <= req.NewNodeAuditThreshold
    /\ r.FreeBandwidth >= req.Restrictions.FreeBandwidth
    /\ r.FreeDisk >= req.Restrictions.FreeDisk
    /\ r.NodeType = nodeTypeStorage

\* the conditions of findNewNodesQuery on the columns of a row
NewFloors(r, req) ==
    /\ r.AuditCount < req.NewNodeAuditThreshold
    /\ r.FreeBandwidth >= req.Restrictions.FreeBandwidth
    /\ r.FreeDisk >= req.Restrictions.FreeDisk
    /\ r.NodeType = nodeTypeStorage

\* the WHERE clause of findNewNodesQuery
NewRow(r, req) ==
    NotInExcluded(r.NodeId, req.ExcludedNodes) /\ NewFloors(r, req)

\* the positions of the rows of t that findReputableNodesQuery matches
ReputableMatches(t, req) == { i \in 1..Len(t) : ReputableRow(t[i], req) }

\* the positions of the rows of t that findNewNodesQuery matches
NewMatches(t, req) == { i \in 1..Len(t) : NewRow(t[i], req) }

\* the rows of t at the positions S, in storage order
RowsAt(t, S) ==
    LET F[i \in 0..Len(t)] ==
            IF i = 0 THEN <<>>
            ELSE IF i \in S THEN Append(F[i - 1], t[i]) ELSE F[i - 1]
    IN  F[Len(t)]

\* number of rows a query with LIMIT limit returns when n rows match
Limited(n, limit) == IF n < limit THEN n ELSE limit

\* SELECT ... WHERE ... LIMIT limit with no ORDER BY, M being the positions of
\* the rows the WHERE clause matches: the results the store may give, any
\* limit of the matching rows
QueryRows(t, M, limit) ==
    { RowsAt(t, S) : S \in { X \in SUBSET M : Cardinality(X) = Limited(Cardinality(M), limit) } }

\* rows.Scan of the selected columns into a zero dbx.OverlayCacheNode: the
\* columns the queries do not select keep their zero values
ScanRow(r) ==
    [r EXCEPT !.Protocol = 0, !.OperatorEmail = "", !.OperatorWallet = "",
              !.Latency90 = 0]

sqlRowsToNodes(rows) == [i \in 1..Len(rows) |-> convertOverlayNode(ScanRow(rows[i]))]

\* slip: <= in place of < in the shortfall test
FilterResult_ExhaustedAtTarget(req, reputableNodes, newNodes) ==
    IF Len(reputableNodes) <= ReputableNodeAmount(req)
       THEN [nodes |-> reputableNodes \o newNodes, err |-> "ResourceExhausted",
             requested |-> ReputableNodeAmount(req), found |-> Len(reputableNodes)]
       ELSE [nodes |-> reputableNodes \o newNodes, err |-> "nil"]

\* slip: on a shortfall only the proven nodes are returned
FilterResult_ShortfallDropsNew(req, reputableNodes, newNodes) ==
    IF Len(reputableNodes) < ReputableNodeAmount(req)
       THEN [nodes |-> reputableNodes, err |-> "ResourceExhausted",
             requested |-> ReputableNodeAmount(req), found |-> Len(reputableNodes)]
       ELSE [nodes |-> reputableNodes \o newNodes, err |-> "nil"]

\* what FilterNodes returns after both queries
FilterResult(req, reputableNodes, newNodes) ==
    LET allNodes == reputableNodes \o newNodes
    IN  IF Len(reputableNodes) < ReputableNodeAmount(req)
           THEN [nodes |-> allNodes, err |-> "ResourceExhausted",
                 requested |-> ReputableNodeAmount(req), found |-> Len(reputableNodes)]
           ELSE [nodes |-> allNodes, err |-> "nil"]

\* FilterNodes is called with req: its first query, getReputableNodes
FilterNodesReputable(req) ==
    /\ fpc = "idle"
    /\ freq' = req
    /\ fnew' = <<>>
    /\ fdirty' = FALSE
    /\ \/ /\ RequestPanics(req)
          /\ fpc' = "idle"
          /\ fproven' = <<>>
          /\ fres' = [nodes |-> Nil, err |-> "panic"]
       \/ /\ ~RequestPanics(req)
          /\ fpc' = "idle"
          /\ fproven' = <<>>
          /\ fres' = [nodes |-> Nil, err |-> "StoreErr"]
       \/ /\ ~RequestPanics(req)
          /\ \E rows \in QueryRows(table, ReputableMatches(table, req),
                                   ReputableNodeAmount(req)) :
                fproven' = sqlRowsToNodes(rows)
          /\ fpc' = "proven"
          /\ fres' = Nil
    /\ UNCHANGED <<table, updVars, calls, getRes, ctx, delRes, readVars>>
    /\ UNCHANGED acctVars

\* the second query, getNewNodes, and the result
FilterNodesNew ==
    /\ fpc = "proven"
    /\ fpc' = "idle"
    /\ \/ /\ fnew' = <<>>
          /\ fres' = [nodes |-> Nil, err |-> "StoreErr"]
       \/ \E rows \in QueryRows(table, NewMatches(table, freq), NewNodeAmount(freq)) :
             /\ fnew' = sqlRowsToNodes(rows)
             /\ fres' = FilterResult(freq, fproven, sqlRowsToNodes(rows))
    /\ UNCHANGED <<table, updVars, calls, getRes, freq, fproven, fdirty,
                   ctx, delRes, readVars>>
    /\ UNCHANGED acctVars

----------------------------------------------------------------------------
(* The registries and requests of the selection specification.             *)

\* stored nodes of the selection specification have identities 1..MaxNodes
MaxNodes == 3
\* MinNodes and Amount of a request are 0..MaxAmount
MaxAmount == 2

\* The kinds of stored node: 1 a proven storage node with capacity, 2 a new
\* storage node with capacity, 3 a storage node with one audit, unknown
\* capacity and a poor audit ratio, 4 a proven node that is no storage node.
Kinds == 1..4
KindRow(id, k) ==
    CreateRow(Node(id,
                   IF k = 4 THEN nodeTypeStorage - 1 ELSE nodeTypeStorage,
                   NodeAddress("a1", 1),
                   NodeMetadata("e1", "w1"),
                   IF k = 3 THEN NodeRestrictions(-1, -1) ELSE NodeRestrictions(5, 5),
                   CASE k = 1 -> NodeStats(id, 3, 1, 1, 2, 2, 1, 1)
                     [] k = 2 -> NodeStats(id, 3, 0, 0, 0, 0, 0, 0)
                     [] k = 3 -> NodeStats(id, 3, 0, 1, 1, 0, 1, 1)
                     [] k = 4 -> NodeStats(id, 3, 1, 1, 2, 2, 1, 1)))

\* the registry with the rows of identities 1..n, that of id of kind f[id]
TableOf(n, f) == [id \in 1..n |-> KindRow(id, f[id])]

FilterTables == UNION { { TableOf(n, f) : f \in [1..n -> Kinds] } : n \in 0..MaxNodes }

\* minimum reputations: none asked, and a proven node's
MinReputations == {NodeStats(ZeroId, 0, 0, 0, 0, 0, 0, 0), NodeStats(ZeroId, 0, 1, 1, 2, 0, 1, 0)}

\* identities a request excludes are among 1..MaxExcluded
MaxExcluded == 1

\* (MinNodes, Amount) of a request: Amount counts only when MinNodes is 0
Amounts == { <<0, am>> : am \in {0, MaxAmount} } \cup { <<mn, 0>> : mn \in 1..MaxAmount }

FilterRequests ==
    { [MinReputation |-> mr, MinNodes |-> ma[1], Amount |-> ma[2], Restrictions |-> rs,
       ExcludedNodes |-> ex, NewNodePercentage |-> np, NewNodeAuditThreshold |-> th] :
        mr \in MinReputations,
        ma \in Amounts,
        rs \in {NodeRestrictions(-1, -1), NodeRestrictions(1, 1)},
        ex \in SUBSET (1..MaxExcluded),
        np \in 0..PctDen,
        th \in {1, 2} }
    \cup
    { [MinReputation |-> mr, MinNodes |-> 1, Amount |-> 0, Restrictions |-> rs,
       ExcludedNodes |-> {}, NewNodePercentage |-> 0, NewNodeAuditThreshold |-> 1] :
        mr \in MinReputations \cup {Nil},
        rs \in {Nil, NodeRestrictions(1, 1)} }

\* a populated registry and the request FilterNodes is called with
InitFilter ==
    /\ table \in FilterTables
    /\ freq \in FilterRequests
    /\ pc = [c \in Callers |-> "idle"]
    /\ arg = [c \in Callers |-> Nil]
    /\ getErr = [c \in Callers |-> "none"]
    /\ pending = [c \in Callers |-> Nil]
    /\ tx = [c \in Callers |-> "none"]
    /\ outcome = [c \in Callers |-> "none"]
    /\ pre = [c \in Callers |-> Nil]
    /\ calls = 0
    /\ getRes = Nil
    /\ fpc = "idle"
    /\ fproven = <<>>
    /\ fnew = <<>>
    /\ fres = Nil
    /\ fdirty = FALSE
    /\ ctx = [c \in Callers |-> "live"]
    /\ delRes = Nil
    /\ rres = Nil
    /\ scan = Nil
    /\ AcctQuiet

\* FilterNodes on a populated registry.
NextFilter ==
    \/ FilterNodesReputable(freq)
    \/ FilterNodesNew

SpecFilter == InitFilter /\ [][NextFilter]_vars

----------------------------------------------------------------------------
(* Every operation on one registry: a reporting caller and a selection.    *)

\* Update and Delete calls of the whole-registry specification
MaxRegistryCalls == 2

\* the registry: node 1 a proven storage node, node 2 known by identity only
RegistryTable == Descending({1, 2})

\* what the caller reports of node 1: a first-contact report with no audit
\* yet, a report of capacity alone, and a full report under another node type
RegistryInfos ==
    { Node(1, SampleType(1), SampleAddress(1), SampleMetadata(1), SampleRestrictions(1),
           NodeStats(1, 3, 0, 0, 0, 0, 0, 0)),
      Node(1, SampleType(1), Nil, Nil, SampleRestrictions(1), Nil),
      Node(1, SampleType(2), SampleAddress(2), SampleMetadata(2), SampleRestrictions(2),
           SampleReputation(1, 2)) }

\* the selection asked for: one proven node and as many new ones, no minimum
\* reputation, no floor, a threshold of one audit
RegistryRequest ==
    [MinReputation |-> NodeStats(ZeroId, 0, 0, 0, 0, 0, 0, 0), MinNodes |-> 1, Amount |-> 0,
     Restrictions |-> NodeRestrictions(-1, -1), ExcludedNodes |-> {},
     NewNodePercentage |-> PctDen, NewNodeAuditThreshold |-> 1]

\* a selection without restrictions, which FilterNodes does not survive
RegistryRequestNoOpts == [RegistryRequest EXCEPT !.Restrictions = Nil]

InitRegistry == table = RegistryTable /\ Quiet

\* Caller 1 calls every operation of the cache, one call at a time, while a
\* FilterNodes of another caller runs its two queries.
NextRegistry ==
    \/ \E c \in {1} :
        \/ \E info \in RegistryInfos : calls < MaxRegistryCalls /\ UpdateCall(c, info)
        \/ UpdateGet(c)
        \/ UpdateCreate(c)
        \/ UpdateUpdate(c)
        \/ UpdateCommit(c)
        \/ \E id \in {1} : calls < MaxRegistryCalls /\ Delete(c, id)
        \/ \E id \in {ZeroId, 1} : Get(c, id)
        \/ \E ids \in {<<2, 1>>} : GetAll(c, ids)
        \/ \E cursor \in {1}, limit \in {1} : List(c, cursor, limit)
        \/ \E offset \in {1}, limit \in {1} : Paginate(c, offset, limit)
        \/ \E id \in {1} : GetWalletAddress(c, id)
    \/ \E req \in {RegistryRequest, RegistryRequestNoOpts} : FilterNodesReputable(req)
    \/ FilterNodesNew

SpecRegistry == InitRegistry /\ [][NextRegistry]_vars

----------------------------------------------------------------------------
(* accountingDB.SaveBWRaw.                                                 *)

\* action types of a tally are 1..MaxBWActions, its nodes 1..MaxBWNodes
MaxBWActions == 1
MaxBWNodes == 2
\* SaveBWRaw calls of a behaviour
MaxSaves == 2

BWActions == 1..MaxBWActions
BWNodes == 1..MaxBWNodes

\* the bandwidth total of node n under action type a in the tallies
BWTotal(a, n) == 10 * a + n

\* accounting.BWTally: per action type a total per node.  The tallies given:
\* any action types, each with any nodes
BWTallies ==
    { [a \in DOMAIN f |-> [n \in f[a] |-> BWTotal(a, n)]] :
        f \in UNION { [D -> SUBSET BWNodes] : D \in SUBSET BWActions } }

\* the (action, node) pairs the two range loops go through
PairsOf(bwTotals) ==
    UNION { { <<a, n>> : n \in DOMAIN bwTotals[a] } : a \in DOMAIN bwTotals }

\* the raw row created for a pair: node id, interval end time, float64 of the
\* total (exact for the totals here), data type
RawRow(bwTotals, latestBwa, pair) ==
    [NodeId |-> pair[2], IntervalEndTime |-> latestBwa,
     DataTotal |-> bwTotals[pair[1]][pair[2]], DataType |-> pair[1]]

\* the raw rows a call creates once its loops are through
RawRowsOf(bwTotals, latestBwa, pairs) ==
    SetToBag({ RawRow(bwTotals, latestBwa, pair) : pair \in pairs })

\* accounting_timestamps is keyed by name: a second row of the name is refused
StampNameTaken(st) == st # Nil

\* the committed timestamp after the write w of a transaction: a create stores
\* the value, an update by name changes the row when there is one
StampAfter(st, w) ==
    IF w = Nil THEN st
    ELSE IF w.kind = "create" THEN [Value |-> w.value]
    ELSE IF st = Nil THEN Nil ELSE [Value |-> w.value]

\* slip: the deferred function commits whatever err is
DeferredEnd_AlwaysCommits(err) == "commit"

\* the deferred function: commit when the named result err is nil, rollback
\* otherwise
DeferredEnd(err) == IF err = "nil" THEN "commit" ELSE "rollback"

\* SaveBWRaw is called: the length check and db.db.Open
SaveBWRawCall(latestBwa, isNew, bwTotals) ==
    /\ spc = "idle"
    /\ saves' = saves + 1
    /\ sarg' = [latestBwa |-> latestBwa, isNew |-> isNew, bwTotals |-> bwTotals]
    /\ sbefore' = [raw |-> raw, stamp |-> stamp]
    /\ swritten' = {}
    /\ sstamp' = Nil
    /\ serr' = "nil"
    /\ IF DOMAIN bwTotals = {}
          THEN /\ spc' = "idle"
               /\ sres' = "ErrEmptyTotals"
               /\ stx' = "none"
               /\ sleft' = {}
          ELSE \/ /\ spc' = "idle"
                  /\ sres' = "OpenErr"
                  /\ stx' = "none"
                  /\ sleft' = {}
               \/ /\ spc' = "creating"
                  /\ sres' = "none"
                  /\ stx' = "open"
                  /\ sleft' = PairsOf(bwTotals)
    /\ UNCHANGED <<raw, stamp, cacheVars>>

\* one pass of the inner loop, the maps ranged over in any order:
\* tx.Create_AccountingRaw, and the return on its failure
CreateRaw ==
    /\ spc = "creating"
    /\ \E pair \in sleft :
          \/ /\ swritten' = swritten \cup {pair}
             /\ sleft' = sleft \ {pair}
             /\ UNCHANGED <<spc, serr>>
          \/ /\ serr' = "CreateErr"
             /\ spc' = "returning"
             /\ UNCHANGED <<sleft, swritten>>
    /\ UNCHANGED <<raw, stamp, sarg, sstamp, sres, stx, sbefore, saves, cacheVars>>

\* after the loops: the timestamp is created when isNew and updated by name
\* otherwise, and err is returned
SaveTimestamp ==
    /\ spc = "creating"
    /\ sleft = {}
    /\ spc' = "returning"
    /\ \/ /\ sarg.isNew
          /\ ~StampNameTaken(stamp)
          /\ sstamp' = [kind |-> "create", value |-> sarg.latestBwa]
          /\ serr' = "nil"
       \/ /\ sarg.isNew
          /\ StampNameTaken(stamp)
          /\ serr' = "UniqueViolation"
          /\ UNCHANGED sstamp
       \/ /\ ~sarg.isNew
          /\ sstamp' = [kind |-> "update", value |-> sarg.latestBwa]
          /\ serr' = "nil"
       \/ /\ serr' = "StampErr"
          /\ UNCHANGED sstamp
    /\ UNCHANGED <<raw, stamp, sarg, sleft, swritten, sres, stx, sbefore, saves, cacheVars>>

\* the deferred function runs: tx.Commit, which may fail, or tx.Rollback
SaveDeferred ==
    /\ spc = "returning"
    /\ spc' = "idle"
    /\ IF DeferredEnd(serr) = "commit"
          THEN \/ /\ raw' = raw (+) RawRowsOf(sarg.bwTotals, sarg.latestBwa, swritten)
                  /\ stamp' = StampAfter(stamp, sstamp)
                  /\ sres' = "ok"
                  /\ stx' = "committed"
               \/ /\ sres' = "CommitErr"
                  /\ stx' = "aborted"
                  /\ UNCHANGED <<raw, stamp>>
          ELSE /\ sres' = serr
               /\ stx' = "rolledback"
               /\ UNCHANGED <<raw, stamp>>
    /\ UNCHANGED <<sarg, sleft, swritten, sstamp, serr, sbefore, saves, cacheVars>>

\* One tally job saving a tally of its choice again and again, each time with
\* a later latestBwa, as a new timestamp or not.
NextAccounting ==
    \/ \E isNew \in BOOLEAN, bwTotals \in BWTallies :
          /\ saves < MaxSaves
          /\ IF sarg = Nil THEN TRUE ELSE bwTotals = sarg.bwTotals
          /\ SaveBWRawCall(saves + 1, isNew, bwTotals)
    \/ CreateRaw
    \/ SaveTimestamp
    \/ SaveDeferred

SpecAccounting == Init /\ [][NextAccounting]_vars

----------------------------------------------------------------------------
(* Properties.                                                             *)

\* caller c's last Update has ended, returning or panicking
Ended(c) == (pc[c] = "idle" /\ outcome[c] # "none") \/ pc[c] = "panicked"

\* the last Get came after caller c's successful Update(arg[c]), asked for
\* the same identity and reached the store
UpdateThenGet(c) ==
    /\ pc[c] = "idle"
    /\ outcome[c] = "ok"
    /\ arg[c] # Nil
    /\ getRes # Nil
    /\ getRes.id = arg[c].Id
    /\ getRes.err # "StoreErr"

\* C1: no identity has two rows
OneRowPerId == \A i, j \in 1..Len(table) : table[i].NodeId = table[j].NodeId => i = j

\* C1: a step in which caller c's create is committed, or refused as a
\* uniqueness violation, leaves exactly one row of that identity
CreateLeavesOneRow(c) ==
    ( /\ arg[c] # Nil
      /\ \/ pc[c] = "written" /\ pending[c] # Nil /\ pending[c].kind = "insert"
            /\ outcome'[c] = "ok"
         \/ pc[c] = "checked" /\ pc'[c] = "idle" /\ outcome'[c] = "UniqueViolation" )
    => Len(RowsOf(table', arg[c].Id)) = 1

\* C1: In every reachable state, under any interleaving of Update, Delete and
\* Get by concurrent callers, the table holds at most one row per node
\* identity, and concurrent Updates of one never-seen identity, of which one
\* is committed and the other refused, leave exactly one row of it.
C1_OneRowPerIdentity ==
    /\ []OneRowPerId
    /\ [][\A c \in Callers : CreateLeavesOneRow(c)]_vars

\* C1 witness: two callers both saw no row of the same identity, one create
\* was committed, the other was refused, and one row is there.
C1_Witness ==
    \E c, d \in Callers :
        /\ c # d
        /\ pc[c] = "idle" /\ pc[d] = "idle"
        /\ arg[c] # Nil /\ arg[d] # Nil
        /\ arg[c].Id = arg[d].Id
        /\ getErr[c] = "norows" /\ getErr[d] = "norows"
        /\ outcome[c] = "ok" /\ outcome[d] = "UniqueViolation"
        /\ Len(RowsOf(table, arg[c].Id)) = 1

\* info has all four sub-groups present and none at its sentinel
FullyPopulated(info) ==
    /\ info.Id # ZeroId
    /\ info.Address # Nil /\ info.Address.Address # ""
    /\ info.Metadata # Nil /\ (info.Metadata.Email # "" \/ info.Metadata.Wallet # "")
    /\ info.Restrictions # Nil
    /\ (info.Restrictions.FreeBandwidth >= 0 \/ info.Restrictions.FreeDisk >= 0)
    /\ info.Reputation # Nil /\ info.Reputation.Latency_90 >= 0

\* the reputation fields of two pb.NodeStats agree
SameStats(a, b) ==
    /\ a.Latency_90 = b.Latency_90
    /\ a.AuditSuccessRatio = b.AuditSuccessRatio
    /\ a.UptimeRatio = b.UptimeRatio
    /\ a.AuditCount = b.AuditCount
    /\ a.AuditSuccessCount = b.AuditSuccessCount
    /\ a.UptimeCount = b.UptimeCount
    /\ a.UptimeSuccessCount = b.UptimeSuccessCount

\* node is a record that equals info in identity and in the four sub-groups
SameButType(res, info) ==
    /\ res.err = "nil"
    /\ res.node.Id = info.Id
    /\ res.node.Address = info.Address
    /\ res.node.Metadata = info.Metadata
    /\ res.node.Restrictions = info.Restrictions
    /\ res.node.Reputation # Nil
    /\ SameStats(res.node.Reputation, info.Reputation)

\* C2 as stated: Update(info) of a fully populated info followed by
\* Get(info.id) returns a record equal to info in identity, type and all four
\* sub-groups, whether or not the identity had a row before.
C2_RoundTripWithType ==
    \A c \in Callers :
        (UpdateThenGet(c) /\ FullyPopulated(arg[c]))
        => (SameButType(getRes, arg[c]) /\ getRes.node.Type = arg[c].Type)

\* C2 amended: Update(info) of a fully populated info followed by Get(info.id)
\* returns a record equal to info in identity and all four sub-groups; its
\* type is info's when the identity had no row before the Update, and the
\* stored type of that row when it had one.
C2_RoundTrip ==
    \A c \in Callers :
        (UpdateThenGet(c) /\ FullyPopulated(arg[c]))
        => /\ SameButType(getRes, arg[c])
           /\ getRes.node.Type = IF pre[c] = Nil THEN arg[c].Type ELSE pre[c].NodeType

\* C2 witness: the round trip of a fully populated info over an existing row
\* of another type and with other values in every sub-group.
C2_Witness ==
    \E c \in Callers :
        /\ UpdateThenGet(c) /\ FullyPopulated(arg[c])
        /\ pre[c] # Nil
        /\ pre[c].NodeType # arg[c].Type
        /\ pre[c].Address # arg[c].Address.Address
        /\ pre[c].OperatorEmail # arg[c].Metadata.Email
        /\ pre[c].FreeBandwidth # arg[c].Restrictions.FreeBandwidth
        /\ pre[c].Latency90 # arg[c].Reputation.Latency_90
        /\ getRes.err = "nil"

\* info has none of the four sub-groups
AllAbsent(info) ==
    /\ info.Address = Nil /\ info.Metadata = Nil
    /\ info.Restrictions = Nil /\ info.Reputation = Nil

\* C3: For a never-seen non-zero identity, Update(info) with all four
\* sub-groups absent followed by Get(info.id) returns a record in which
\* address, metadata, restrictions and reputation are all absent.
C3_AbsentRoundTrip ==
    \A c \in Callers :
        (UpdateThenGet(c) /\ pre[c] = Nil /\ AllAbsent(arg[c]))
        => (getRes.err = "nil" /\ AllAbsent(getRes.node))

\* info has the restrictions sub-group and no other
OnlyRestrictions(info) ==
    /\ info.Address = Nil /\ info.Metadata = Nil
    /\ info.Restrictions # Nil /\ info.Reputation = Nil

\* rows a and b agree on address, transport, operator and reputation fields
SameAddressMetadataReputation(a, b) ==
    /\ a.Address = b.Address /\ a.Protocol = b.Protocol
    /\ a.OperatorEmail = b.OperatorEmail /\ a.OperatorWallet = b.OperatorWallet
    /\ a.Latency90 = b.Latency90
    /\ a.AuditSuccessRatio = b.AuditSuccessRatio
    /\ a.AuditUptimeRatio = b.AuditUptimeRatio
    /\ a.AuditCount = b.AuditCount
    /\ a.AuditSuccessCount = b.AuditSuccessCount
    /\ a.UptimeCount = b.UptimeCount
    /\ a.UptimeSuccessCount = b.UptimeSuccessCount

\* C4: For an identity that has a row, Update(info) with only the
\* restrictions sub-group populated returns to its caller and leaves the
\* stored address and transport, operator email and wallet and all reputation
\* fields as they were before the call.
C4_OnlyRestrictionsKeepsRest ==
    \A c \in Callers :
        (Ended(c) /\ arg[c] # Nil /\ pre[c] # Nil /\ OnlyRestrictions(arg[c]))
        => /\ pc[c] = "idle"
           /\ HasRow(table, arg[c].Id)
           /\ SameAddressMetadataReputation(RowOf(table, arg[c].Id), pre[c])

\* the last FilterNodes call returned a list: both queries answered
Returned == fpc = "idle" /\ fres # Nil /\ fres.err \in {"nil", "ResourceExhausted"}

\* the identities of a list of nodes
IdsOf(nodes) == { nodes[i].Id : i \in 1..Len(nodes) }

\* the stored rows that meet the conditions of the proven query, and of the
\* new query, whoever is excluded
ReputableEligible(req) == { i \in 1..Len(table) : ReputableFloors(table[i], req) }
NewEligible(req) == { i \in 1..Len(table) : NewFloors(table[i], req) }

\* the proven target and the new-node quota of a request, as the claims state them
ProvenTarget(req) == IF req.MinNodes > 0 THEN req.MinNodes ELSE req.Amount
NewQuota(req) == (ProvenTarget(req) * req.NewNodePercentage) \div PctDen

\* C5: No node of a list returned by FilterNodes, in its proven or its new
\* part, has an identity of the request's exclusion set.
C5_NoExcludedNode ==
    Returned => IdsOf(fres.nodes) \cap freq.ExcludedNodes = {}

\* C5 witness: a list was returned while an excluded identity has a row that
\* meets every other condition of the proven query.
C5_Witness ==
    /\ Returned
    /\ Len(fres.nodes) > 0
    /\ \E i \in 1..Len(table) :
          table[i].NodeId \in freq.ExcludedNodes /\ ReputableFloors(table[i], freq)

\* C6: When no write falls between the two queries, a list returned by
\* FilterNodes holds no identity twice: neither part repeats one and the two
\* parts share none.
C6_NoDuplicates ==
    (Returned /\ ~fdirty)
    => /\ \A i, j \in 1..Len(fres.nodes) :
             fres.nodes[i].Id = fres.nodes[j].Id => i = j
       /\ IdsOf(fproven) \cap IdsOf(fnew) = {}

\* C6 witness: a returned list with proven and new nodes, a node whose audit
\* count equals the threshold among the proven.
C6_Witness ==
    /\ Returned /\ ~fdirty
    /\ Len(fnew) > 0
    /\ \E i \in 1..Len(fproven) :
          fproven[i].Reputation.AuditCount = freq.NewNodeAuditThreshold

\* C7: The new nodes of a returned list are at most floor(provenTarget *
\* newNodePercentage), none when that quota is 0.
C7_NewNodeQuota == Returned => Len(fnew) <= NewQuota(freq)

\* C7 witness: more stored nodes meet the new query than the quota admits,
\* and the quota is met and not 0.
C7_Witness ==
    /\ Returned
    /\ NewQuota(freq) > 0
    /\ Len(fnew) = NewQuota(freq)
    /\ Cardinality(NewMatches(table, freq)) > NewQuota(freq)

\* C8: FilterNodes returns the proven nodes followed by the new nodes; when
\* both queries answer, it returns ResourceExhausted, with the requested and
\* the found number of proven nodes, if and only if fewer proven nodes were
\* found than the proven target, the list then still holding every node
\* found; with the target met the error is nil.
C8_Shortfall ==
    (fpc = "idle" /\ fres # Nil)
    => /\ Returned => fres.nodes = fproven \o fnew
       /\ fres.err = "ResourceExhausted"
             <=> (Returned /\ Len(fproven) < ProvenTarget(freq))
       /\ fres.err = "ResourceExhausted"
             => (fres.requested = ProvenTarget(freq) /\ fres.found = Len(fproven))
       /\ fres.err = "nil" <=> (Returned /\ Len(fproven) >= ProvenTarget(freq))

\* C8 witness: a shortfall whose list holds a proven and a new node.
C8_Witness ==
    /\ Returned
    /\ fres.err = "ResourceExhausted"
    /\ Len(fproven) > 0 /\ Len(fnew) > 0
    /\ Len(fres.nodes) = Len(fproven) + Len(fnew)

\* some stored node is found by one of the two queries of the request
SomeNodeFound(req) ==
    \/ ReputableMatches(table, req) # {} /\ ProvenTarget(req) > 0
    \/ NewMatches(table, req) # {} /\ NewQuota(req) > 0

\* C9 as stated: whenever FilterNodes returns ResourceExhausted, the list
\* returned with it is non-empty.
C9_ExhaustedNonEmpty ==
    (Returned /\ fres.err = "ResourceExhausted") => Len(fres.nodes) > 0

\* C9 amended: whenever FilterNodes returns ResourceExhausted, the list
\* returned with it is non-empty if one of its queries found a node, and
\* empty if neither did.
C9_ExhaustedListsFound ==
    (Returned /\ ~fdirty /\ fres.err = "ResourceExhausted")
    => (Len(fres.nodes) > 0 <=> SomeNodeFound(freq))

\* C9 witness: ResourceExhausted with a list of a proven and a new node.
C9_Witness ==
    /\ Returned /\ ~fdirty
    /\ fres.err = "ResourceExhausted"
    /\ Len(fproven) > 0 /\ Len(fnew) > 0
    /\ SomeNodeFound(freq)

\* C10: With an empty exclusion set every stored node that meets the type,
\* reputation and resource conditions counts for the proven query and every
\* one that meets the type, resource and below-threshold conditions for the
\* new query: each part holds the smaller of its cap and the number of such
\* nodes.
C10_EmptyExclusion ==
    (Returned /\ ~fdirty /\ freq.ExcludedNodes = {})
    => /\ Len(fproven) =
             Limited(Cardinality(ReputableEligible(freq)), ProvenTarget(freq))
       /\ Len(fnew) =
             Limited(Cardinality(NewEligible(freq)), NewQuota(freq))

\* C10 witness: nobody excluded, both parts hold a node, and more stored
\* nodes meet the proven conditions than the target admits.
C10_Witness ==
    /\ Returned /\ ~fdirty /\ freq.ExcludedNodes = {}
    /\ Len(fproven) > 0 /\ Len(fnew) > 0
    /\ Cardinality(ReputableEligible(freq)) > ProvenTarget(freq)

----------------------------------------------------------------------------
(* Lookups, Delete and the argument check of Update.                       *)

\* C11: Get returns ErrEmptyNode exactly for the zero identity; it returns
\* ErrNodeNotFound only for a non-zero identity without a row, and for every
\* such identity when the store answers; for an identity with a row it
\* returns, when the store answers, the conversion of that row, no error.
C11_GetErrors ==
    getRes # Nil =>
        /\ getRes.err = "ErrEmptyNode" <=> getRes.id = ZeroId
        /\ getRes.err = "ErrNodeNotFound"
              => (getRes.id # ZeroId /\ getRes.id \notin StoredIds(table))
        /\ (getRes.id # ZeroId /\ getRes.id \notin StoredIds(table)
               /\ getRes.err # "StoreErr")
              => (getRes.err = "ErrNodeNotFound" /\ getRes.node = Nil)
        /\ (getRes.id \in StoredIds(table) /\ getRes.err # "StoreErr")
              => /\ getRes.err = "nil"
                 /\ getRes.node.Id = getRes.id
                 /\ \E i \in 1..Len(table) :
                       /\ table[i].NodeId = getRes.id
                       /\ getRes.node = convertOverlayNode(table[i])

\* C11 witness: a Get of a stored node returned its record, which has an
\* address.
C11_Witness ==
    /\ getRes # Nil
    /\ getRes.err = "nil"
    /\ getRes.id \in StoredIds(table)
    /\ getRes.node.Address # Nil

\* C12: GetAll returns no error and as many entries as it was given
\* identities; an entry is nil when its identity is zero, has no row, or its
\* lookup failed in the store, and is the conversion of the row of its
\* identity otherwise, whatever happened at the other positions.
C12_GetAllHoles ==
    (rres # Nil /\ rres.op = "GetAll") =>
        /\ rres.err = "nil"
        /\ Len(rres.nodes) = Len(rres.ids)
        /\ \A i \in 1..Len(rres.ids) :
              IF rres.ids[i] \in StoredIds(table) /\ i \notin rres.failed
                 THEN /\ rres.nodes[i] # Nil
                      /\ rres.nodes[i].Id = rres.ids[i]
                      /\ rres.nodes[i] = convertOverlayNode(RowOf(table, rres.ids[i]))
                 ELSE rres.nodes[i] = Nil

\* C12 witness: three identities, the second non-zero and without a row, the
\* first and third stored: a hole between two records.
C12_Witness ==
    /\ rres # Nil /\ rres.op = "GetAll"
    /\ Len(rres.ids) = 3
    /\ rres.ids[2] # ZeroId
    /\ rres.ids[2] \notin StoredIds(table)
    /\ rres.nodes[1] # Nil /\ rres.nodes[2] = Nil /\ rres.nodes[3] # Nil

\* caller c's last call was an Update with no info or with the zero identity
EmptyUpdate(c) ==
    /\ outcome[c] # "none" \/ pc[c] # "idle"
    /\ arg[c] = Nil \/ arg[c].Id = ZeroId

\* C13: An Update with no info or with the zero identity returns
\* ErrEmptyNode, has no transaction, and the step that refuses it leaves the
\* table as it is.
C13_EmptyNodeRefused ==
    /\ [](\A c \in Callers :
             EmptyUpdate(c) => /\ pc[c] = "idle"
                               /\ outcome[c] = "ErrEmptyNode"
                               /\ tx[c] = "none")
    /\ [][\A c \in Callers : \A info \in ConcInfos :
             ((info = Nil \/ info.Id = ZeroId) /\ UpdateCall(c, info))
                => /\ outcome'[c] = "ErrEmptyNode"
                   /\ table' = table
                   /\ tx'[c] = "none"
                   /\ pending'[c] = Nil]_vars

\* C13 witness: an Update with the zero identity was refused on a registry
\* that holds a row.
C13_Witness ==
    \E c \in Callers :
        /\ arg[c] # Nil
        /\ arg[c].Id = ZeroId
        /\ outcome[c] = "ErrEmptyNode"
        /\ Len(table) > 0

\* C14: A Delete the store answers returns no error, leaves no row of its
\* identity, and leaves the table as it was when the identity had no row.
C14_DeleteIdempotent ==
    (delRes # Nil /\ delRes.answered) =>
        /\ delRes.err = "nil"
        /\ delRes.id \notin StoredIds(table)
        /\ delRes.id \notin StoredIds(delRes.before) => table = delRes.before
        /\ \A id \in StoredIds(delRes.before) \ {delRes.id} :
              RowOf(table, id) = RowOf(delRes.before, id)

\* C14 witness: the second of two Deletes found no row of its non-zero
\* identity, on a registry that holds other rows.
C14_Witness ==
    /\ delRes # Nil /\ delRes.answered
    /\ calls = 2
    /\ delRes.id # ZeroId
    /\ delRes.id \notin StoredIds(delRes.before)
    /\ Len(delRes.before) > 0
    /\ Len(delRes.before) < MaxBatchId

\* C15: GetWalletAddress, when the store answers, returns a wallet and no
\* error only for an identity whose row has a non-empty operator wallet, and
\* fails with a not-found error when there is no row or the wallet is empty.
C15_WalletNotFound ==
    (rres # Nil /\ rres.op = "GetWalletAddress" /\ rres.err # "StoreErr") =>
        IF /\ rres.id \in StoredIds(table)
           /\ RowOf(table, rres.id).OperatorWallet # ""
           THEN /\ rres.err = "nil"
                /\ rres.wallet = RowOf(table, rres.id).OperatorWallet
           ELSE rres.err = "ErrNoRows"

----------------------------------------------------------------------------
(* Enumeration.                                                            *)

\* the limit List and Paginate work with, as the claims state it
EffectiveLimit(limit) ==
    IF 1 <= limit /\ limit <= LookupLimit THEN limit ELSE LookupLimit

Smaller(a, b) == IF a < b THEN a ELSE b

\* the identities of the returned nodes, in the order returned
ReturnedIds(nodes) == [i \in 1..Len(nodes) |-> nodes[i].Id]

StrictlyAscending(ids) == \A i, j \in 1..Len(ids) : i < j => ids[i] < ids[j]

\* C16: List returns, in ascending order of identity, the records of the k
\* smallest stored identities that are at least the cursor, k the smaller of
\* the effective limit and the number of such identities.
C16_ListPage ==
    (rres # Nil /\ rres.op = "List" /\ rres.err = "nil") =>
        LET ids == ReturnedIds(rres.nodes)
            got == { ids[i] : i \in 1..Len(ids) }
            from == { id \in StoredIds(table) : id >= rres.cursor }
        IN  /\ Len(ids) = Smaller(EffectiveLimit(rres.limit), Cardinality(from))
            /\ StrictlyAscending(ids)
            /\ got \subseteq from
            /\ \A x \in from \ got : \A y \in got : y < x
            /\ \A i \in 1..Len(ids) :
                  rres.nodes[i] = convertOverlayNode(RowOf(table, ids[i]))

\* C16 witness: a List with a limit above the maximum and a cursor above a
\* stored identity returned the maximum of rows and left rows behind.
C16_Witness ==
    /\ rres # Nil /\ rres.op = "List" /\ rres.err = "nil"
    /\ rres.limit > LookupLimit
    /\ Len(rres.nodes) = LookupLimit
    /\ \E id \in StoredIds(table) : id < rres.cursor
    /\ \E id \in StoredIds(table) : id > rres.nodes[Len(rres.nodes)].Id

\* C17: The identities an enumeration has seen are strictly ascending, and
\* when it ends on an empty page they are the stored identities, each once;
\* for every limit from 1 on, those below the population among them.
C17_ScanEnumerates ==
    scan # Nil =>
        /\ StrictlyAscending(scan.seen)
        /\ { scan.seen[i] : i \in 1..Len(scan.seen) } \subseteq StoredIds(table)
        /\ scan.done =>
              /\ { scan.seen[i] : i \in 1..Len(scan.seen) } = StoredIds(table)
              /\ Len(scan.seen) = Len(table)

\* C17 witness: an enumeration with a limit below the population ended after
\* two full pages or more on a registry whose identities have a gap.
C17_Witness ==
    /\ scan # Nil /\ scan.done
    /\ scan.limit > 1
    /\ Len(table) >= 2 * scan.limit
    /\ Len(scan.seen) = Len(table)
    /\ \E id \in 1..MaxPop : id \notin StoredIds(table) /\ id + 1 \in StoredIds(table)

\* C18: The i-th row Paginate returns is the one with offset + i - 1 smaller
\* identities stored; it returns the rows left after the offset, at most the
\* effective limit, and more is true exactly when it returns that many.  On
\* five rows with limit 2 the pages at offsets 0, 2, 4 hold 2, 2, 1 rows with
\* more true, true, false.
C18_PaginatePages ==
    (rres # Nil /\ rres.op = "Paginate" /\ rres.err = "nil") =>
        LET ids == ReturnedIds(rres.nodes)
            n == Cardinality(StoredIds(table))
            eff == EffectiveLimit(rres.limit)
            left == IF rres.offset < n THEN n - rres.offset ELSE 0
        IN  /\ Len(ids) = Smaller(eff, left)
            /\ \A i \in 1..Len(ids) :
                  /\ ids[i] \in StoredIds(table)
                  /\ Cardinality({ x \in StoredIds(table) : x < ids[i] })
                        = rres.offset + i - 1
                  /\ rres.nodes[i] = convertOverlayNode(RowOf(table, ids[i]))
            /\ rres.more <=> Len(ids) = eff
            /\ (n = 5 /\ rres.limit = 2 /\ rres.offset \in {0, 2})
                  => (Len(ids) = 2 /\ rres.more)
            /\ (n = 5 /\ rres.limit = 2 /\ rres.offset = 4)
                  => (Len(ids) = 1 /\ ~rres.more)

\* C18 witness: the last page of five rows by twos, one row and no more.
C18_Witness ==
    /\ rres # Nil /\ rres.op = "Paginate" /\ rres.err = "nil"
    /\ Cardinality(StoredIds(table)) = 5
    /\ rres.limit = 2 /\ rres.offset = 4
    /\ Len(rres.nodes) = 1
    /\ ~rres.more

----------------------------------------------------------------------------
(* The transaction of Update.                                              *)

\* C19: When Update has ended its transaction is not open: it is committed
\* when Update returned no error and rolled back or aborted when it failed
\* after opening it.
C19_TransactionClosed ==
    \A c \in Callers :
        Ended(c) => /\ tx[c] # "open"
                    /\ outcome[c] = "ok" <=> tx[c] = "committed"
                    /\ outcome[c] \in {"ErrEmptyNode", "OpenErr"} <=> tx[c] = "none"

\* C20: When the ctx was cancelled inside the transaction, Update has issued
\* no write statement on it since, has returned the cancellation error with
\* the transaction undone, and the row of its identity is as it was when
\* Update was called.
C20_CancelStopsUpdate ==
    \A c \in Callers :
        (Ended(c) /\ ctx[c] # "live") =>
            /\ ctx[c] # "usedAfterCancel"
            /\ outcome[c] = "Cancelled"
            /\ tx[c] \in {"rolledback", "aborted"}
            /\ RowOf(table, arg[c].Id) = pre[c]

----------------------------------------------------------------------------
(* The race of two first-sight Updates.                                    *)

\* C21: Two concurrent Updates of one never-seen identity can both see no
\* row and both attempt the create (the witness); the create of a caller
\* whose existence check saw no row, attempted when the row is there by now,
\* is refused: that Update returns an error, its transaction rolled back, and
\* the table stays as the other caller's commit left it.
C21_StaleCreateRefused ==
    [][\A c \in Callers :
          (/\ pc[c] = "checked"
           /\ getErr[c] = "norows"
           /\ HasRow(table, arg[c].Id)
           /\ pc'[c] # pc[c])
          => /\ pc'[c] = "idle"
             /\ outcome'[c] \in {"UniqueViolation", "CreateErr"}
             /\ tx'[c] = "rolledback"
             /\ table' = table]_vars

\* C21 witness: both existence checks saw no row of the same identity, one
\* Update committed its create and the other returned the uniqueness
\* violation with its transaction rolled back.
C21_Witness ==
    \E c, d \in Callers :
        /\ c # d
        /\ arg[c] # Nil /\ arg[d] # Nil
        /\ arg[c].Id = arg[d].Id
        /\ pre[c] = Nil /\ pre[d] = Nil
        /\ getErr[c] = "norows" /\ getErr[d] = "norows"
        /\ outcome[c] = "ok" /\ tx[c] = "committed"
        /\ outcome[d] = "UniqueViolation" /\ tx[d] = "rolledback"

----------------------------------------------------------------------------
(* The rows Update writes.                                                 *)

\* caller c's last call was an Update that found no row of its identity and
\* committed, and nothing was written since
Created(c) ==
    /\ pc[c] = "idle"
    /\ outcome[c] = "ok"
    /\ arg[c] # Nil
    /\ pre[c] = Nil

\* C22: The row a first-sight Update creates holds the identity and type
\* given, each supplied sub-group as given, and for each omitted one its
\* default: address "" and transport 0, email "" and wallet "", both floors
\* -1, latency90 and every other reputation field 0.
C22_CreateInitializes ==
    \A c \in Callers :
        Created(c) =>
            LET info == arg[c]
                r == RowOf(table, info.Id)
            IN  /\ r # Nil
                /\ r.NodeId = info.Id /\ r.NodeType = info.Type
                /\ IF info.Address = Nil
                      THEN r.Address = "" /\ r.Protocol = 0
                      ELSE /\ r.Address = info.Address.Address
                           /\ r.Protocol = info.Address.Transport
                /\ IF info.Metadata = Nil
                      THEN r.OperatorEmail = "" /\ r.OperatorWallet = ""
                      ELSE /\ r.OperatorEmail = info.Metadata.Email
                           /\ r.OperatorWallet = info.Metadata.Wallet
                /\ IF info.Restrictions = Nil
                      THEN r.FreeBandwidth = 0 - 1 /\ r.FreeDisk = 0 - 1
                      ELSE /\ r.FreeBandwidth = info.Restrictions.FreeBandwidth
                           /\ r.FreeDisk = info.Restrictions.FreeDisk
                /\ IF info.Reputation = Nil
                      THEN /\ r.Latency90 = 0 /\ r.AuditSuccessRatio = 0
                           /\ r.AuditUptimeRatio = 0 /\ r.AuditCount = 0
                           /\ r.AuditSuccessCount = 0 /\ r.UptimeCount = 0
                           /\ r.UptimeSuccessCount = 0
                      ELSE /\ r.Latency90 = info.Reputation.Latency_90
                           /\ r.AuditSuccessRatio = info.Reputation.AuditSuccessRatio
                           /\ r.AuditUptimeRatio = info.Reputation.UptimeRatio
                           /\ r.AuditCount = info.Reputation.AuditCount
                           /\ r.AuditSuccessCount = info.Reputation.AuditSuccessCount
                           /\ r.UptimeCount = info.Reputation.UptimeCount
                           /\ r.UptimeSuccessCount = info.Reputation.UptimeSuccessCount

\* C22 witness: a first-sight Update that supplied the restrictions alone
\* created the row.
C22_Witness ==
    \E c \in Callers :
        /\ Created(c)
        /\ arg[c].Restrictions # Nil
        /\ arg[c].Address = Nil /\ arg[c].Metadata = Nil /\ arg[c].Reputation = Nil
        /\ HasRow(table, arg[c].Id)

\* C23: The record Get builds of a stored row has the address absent exactly
\* when the stored address is empty, the metadata absent exactly when email
\* and wallet are both empty, the restrictions absent exactly when both floors
\* are negative, the reputation absent exactly when latency90 is negative; a
\* sub-group that is kept carries the stored values.
C23_ConvertAbsence ==
    (getRes # Nil /\ getRes.err = "nil") =>
        LET r == RowOf(table, getRes.id)
            n == getRes.node
        IN  /\ n.Id = r.NodeId /\ n.Type = r.NodeType
            /\ n.Address = Nil <=> r.Address = ""
            /\ n.Address # Nil
                  => /\ n.Address.Address = r.Address
                     /\ n.Address.Transport = r.Protocol
            /\ n.Metadata = Nil <=> (r.OperatorEmail = "" /\ r.OperatorWallet = "")
            /\ n.Metadata # Nil
                  => /\ n.Metadata.Email = r.OperatorEmail
                     /\ n.Metadata.Wallet = r.OperatorWallet
            /\ n.Restrictions = Nil <=> (r.FreeBandwidth < 0 /\ r.FreeDisk < 0)
            /\ n.Restrictions # Nil
                  => /\ n.Restrictions.FreeBandwidth = r.FreeBandwidth
                     /\ n.Restrictions.FreeDisk = r.FreeDisk
            /\ n.Reputation = Nil <=> r.Latency90 < 0
            /\ n.Reputation # Nil
                  => /\ n.Reputation.NodeId = r.NodeId
                     /\ n.Reputation.Latency_90 = r.Latency90
                     /\ n.Reputation.AuditSuccessRatio = r.AuditSuccessRatio
                     /\ n.Reputation.UptimeRatio = r.AuditUptimeRatio
                     /\ n.Reputation.AuditCount = r.AuditCount
                     /\ n.Reputation.AuditSuccessCount = r.AuditSuccessCount
                     /\ n.Reputation.UptimeCount = r.UptimeCount
                     /\ n.Reputation.UptimeSuccessCount = r.UptimeSuccessCount

\* C23 witness: a row with an email and no wallet, one floor negative, a
\* negative latency and an empty address: metadata and restrictions kept,
\* reputation and address absent.
C23_Witness ==
    /\ getRes # Nil /\ getRes.err = "nil"
    /\ RowOf(table, getRes.id).OperatorEmail # ""
    /\ RowOf(table, getRes.id).OperatorWallet = ""
    /\ RowOf(table, getRes.id).FreeBandwidth < 0
    /\ RowOf(table, getRes.id).FreeDisk >= 0
    /\ RowOf(table, getRes.id).Latency90 < 0
    /\ RowOf(table, getRes.id).Protocol # 0
    /\ getRes.node.Metadata # Nil /\ getRes.node.Restrictions # Nil
    /\ getRes.node.Reputation = Nil /\ getRes.node.Address = Nil

\* C24: No row of the table has the zero identity, whatever Updates and
\* Deletes were called.
C24_NoZeroIdentityRow == \A i \in 1..Len(table) : table[i].NodeId # ZeroId

\* C24 witness: all calls are made, the last of some caller an Update with
\* the zero identity, and the table holds a row.
C24_Witness ==
    /\ calls = MaxCalls
    /\ Len(table) > 0
    /\ \E c \in Callers :
          /\ pc[c] = "idle"
          /\ arg[c] # Nil
          /\ arg[c].Id = ZeroId
          /\ outcome[c] # "none"


\* C25: A row leaves the store only through Delete of its identity: whatever
\* step takes a stored identity out of the table is a Delete of that
\* identity, so no Update, Get, GetAll, List, Paginate, FilterNodes or
\* GetWalletAddress step removes a row.
C25_OnlyDeleteRemoves ==
    [][\A id \in 1..2 :
          (HasRow(table, id) /\ ~HasRow(table', id)) => \E c \in Callers : Delete(c, id)]_vars

\* C25 witness: node 1 was deleted and a selection has answered since, node 2
\* still stored.
C25_Witness ==
    /\ delRes # Nil /\ delRes.answered /\ delRes.id = 1
    /\ HasRow(delRes.before, 1) /\ ~HasRow(table, 1)
    /\ HasRow(table, 2)
    /\ Returned


\* the conditions of a proven node as the claim states them, on a stored row
StatedProven(r, req) ==
    /\ r.NodeType = nodeTypeStorage
    /\ r.AuditCount >= req.MinReputation.AuditCount
    /\ r.AuditCount >= req.NewNodeAuditThreshold
    /\ r.AuditSuccessRatio >= req.MinReputation.AuditSuccessRatio
    /\ r.UptimeCount >= req.MinReputation.UptimeCount
    /\ r.AuditUptimeRatio >= req.MinReputation.UptimeRatio
    /\ r.FreeBandwidth >= req.Restrictions.FreeBandwidth
    /\ r.FreeDisk >= req.Restrictions.FreeDisk

\* the first query of the last FilterNodes call has answered
ProvenAnswered == fpc = "proven" \/ Returned

\* C26: Every node of the proven part of a FilterNodes result is a stored
\* storage node whose audit count is at least both the minimum and the
\* new-node threshold and whose audit success ratio, uptime count, uptime
\* ratio, free bandwidth and free disk are at least the requested ones; the
\* proven part holds min(provenTarget, number of such non-excluded nodes).
C26_ProvenPart ==
    ProvenAnswered
    => /\ \A i \in 1..Len(fproven) :
             /\ HasRow(table, fproven[i].Id)
             /\ StatedProven(RowOf(table, fproven[i].Id), freq)
       /\ Len(fproven) =
             Smaller(ProvenTarget(freq),
                     Cardinality({ i \in 1..Len(table) :
                                      /\ table[i].NodeId \notin freq.ExcludedNodes
                                      /\ StatedProven(table[i], freq) }))

\* C26 witness: a result whose proven part is not empty, the minimum audit
\* count above the threshold, while a storage node with as many audits as the
\* threshold and fewer than the minimum is left out.
C26_Witness ==
    /\ Returned
    /\ Len(fproven) > 0
    /\ freq.MinReputation.AuditCount > freq.NewNodeAuditThreshold
    /\ \E i \in 1..Len(table) :
          /\ table[i].NodeType = nodeTypeStorage
          /\ table[i].AuditCount >= freq.NewNodeAuditThreshold
          /\ table[i].AuditCount < freq.MinReputation.AuditCount
          /\ table[i].NodeId \notin IdsOf(fproven)


\* the conditions of a new node as the claim states them, on a stored row
StatedNew(r, req) ==
    /\ r.NodeType = nodeTypeStorage
    /\ r.AuditCount < req.NewNodeAuditThreshold
    /\ r.FreeBandwidth >= req.Restrictions.FreeBandwidth
    /\ r.FreeDisk >= req.Restrictions.FreeDisk

\* C27: Every node of the new part of a FilterNodes result is a stored storage
\* node with fewer audits than the threshold and free bandwidth and free disk
\* at least the requested floors, a node of unknown (-1) capacity only under a
\* floor of -1 or less; the minimum reputation is not asked of new nodes: the
\* new part holds as many of these non-excluded nodes as the quota allows.
C27_NewPart ==
    Returned
    => /\ \A i \in 1..Len(fnew) :
             /\ HasRow(table, fnew[i].Id)
             /\ StatedNew(RowOf(table, fnew[i].Id), freq)
             /\ RowOf(table, fnew[i].Id).FreeBandwidth = -1
                   => freq.Restrictions.FreeBandwidth <= -1
             /\ RowOf(table, fnew[i].Id).FreeDisk = -1
                   => freq.Restrictions.FreeDisk <= -1
       /\ Len(fnew) =
             Smaller(NewQuota(freq),
                     Cardinality({ i \in 1..Len(table) :
                                      /\ table[i].NodeId \notin freq.ExcludedNodes
                                      /\ StatedNew(table[i], freq) }))

\* C27 witness: a result with a new node whose audit success ratio is below
\* the minimum, while a storage node of unknown capacity with fewer audits than
\* the threshold is left out under a positive floor.
C27_Witness ==
    /\ Returned
    /\ \E i \in 1..Len(fnew) :
          RowOf(table, fnew[i].Id).AuditSuccessRatio < freq.MinReputation.AuditSuccessRatio
    /\ freq.Restrictions.FreeDisk > -1
    /\ \E i \in 1..Len(table) :
          /\ table[i].NodeType = nodeTypeStorage
          /\ table[i].AuditCount < freq.NewNodeAuditThreshold
          /\ table[i].FreeDisk = -1
          /\ table[i].NodeId \notin IdsOf(fnew)


\* positions i of the proven part and j of the new part with one identity
SharedIdentity(i, j) ==
    /\ i \in 1..Len(fproven)
    /\ j \in 1..Len(fnew)
    /\ fproven[i].Id = fnew[j].Id

\* C28: The two queries of FilterNodes are no snapshot.  A result lists an
\* identity as proven and as new only when a write was committed between the
\* queries, the node then read with an audit count at or above the threshold
\* by the first query and below it by the second; and (witness) an Update
\* of another caller between the queries does produce such a result.
C28_PartitionsMove ==
    Returned
    => \A i \in 1..Len(fproven), j \in 1..Len(fnew) :
          SharedIdentity(i, j)
          => /\ fdirty
             /\ fproven[i].Reputation.AuditCount >= freq.NewNodeAuditThreshold
             /\ fnew[j].Reputation.AuditCount < freq.NewNodeAuditThreshold

\* C28 witness: the Update of caller 1 succeeded on the row of its node between
\* the two queries, and the result lists that node as proven and as new.
C28_Witness ==
    /\ Returned /\ fdirty
    /\ outcome[1] = "ok" /\ pre[1] # Nil
    /\ pre[1].AuditCount >= freq.NewNodeAuditThreshold
    /\ RowOf(table, arg[1].Id).AuditCount < freq.NewNodeAuditThreshold
    /\ \E i \in 1..Len(fproven), j \in 1..Len(fnew) :
          SharedIdentity(i, j) /\ fproven[i].Id = arg[1].Id


\* caller c's last call was an Update that found a row of its identity and
\* committed, and nothing was written since
UpdatedExisting(c) ==
    /\ pc[c] = "idle"
    /\ outcome[c] = "ok"
    /\ arg[c] # Nil
    /\ pre[c] # Nil

\* C29: On an identity that has a row, an Update with address and reputation
\* and no metadata leaves the stored operator email and wallet as they were,
\* and one with address and reputation and no restrictions leaves the stored
\* free bandwidth and free disk as they were.
C29_OmittedKept ==
    \A c \in Callers :
        (UpdatedExisting(c) /\ arg[c].Address # Nil /\ arg[c].Reputation # Nil)
        => /\ arg[c].Metadata = Nil
                 => /\ RowOf(table, arg[c].Id).OperatorEmail = pre[c].OperatorEmail
                    /\ RowOf(table, arg[c].Id).OperatorWallet = pre[c].OperatorWallet
           /\ arg[c].Restrictions = Nil
                 => /\ RowOf(table, arg[c].Id).FreeBandwidth = pre[c].FreeBandwidth
                    /\ RowOf(table, arg[c].Id).FreeDisk = pre[c].FreeDisk

\* C29 witness: such an Update, with neither metadata nor restrictions, on a
\* row with an operator email, a wallet and known capacity.
C29_Witness ==
    \E c \in Callers :
        /\ UpdatedExisting(c) /\ arg[c].Address # Nil /\ arg[c].Reputation # Nil
        /\ arg[c].Metadata = Nil /\ arg[c].Restrictions = Nil
        /\ pre[c].OperatorEmail # "" /\ pre[c].OperatorWallet # ""
        /\ pre[c].FreeBandwidth # -1 /\ pre[c].FreeDisk # -1

\* C30: On an identity whose row has a non-empty address, an Update with
\* reputation and no address leaves the stored address and transport as they
\* were, and a Get after it returns the previous address.
C30_AddressKept ==
    \A c \in Callers :
        (UpdatedExisting(c) /\ pre[c].Address # "" /\ arg[c].Address = Nil
           /\ arg[c].Reputation # Nil)
        => /\ RowOf(table, arg[c].Id).Address = pre[c].Address
           /\ RowOf(table, arg[c].Id).Protocol = pre[c].Protocol
           /\ UpdateThenGet(c)
                 => /\ getRes.err = "nil"
                    /\ getRes.node.Address = NodeAddress(pre[c].Address, pre[c].Protocol)


----------------------------------------------------------------------------
(* Update: omitted reputation, the branch taken, failures and the frame.   *)

\* the reputation columns of rows a and b are the same
SameReputationColumns(a, b) ==
    /\ a.Latency90 = b.Latency90
    /\ a.AuditSuccessRatio = b.AuditSuccessRatio
    /\ a.AuditUptimeRatio = b.AuditUptimeRatio
    /\ a.AuditCount = b.AuditCount
    /\ a.AuditSuccessCount = b.AuditSuccessCount
    /\ a.UptimeCount = b.UptimeCount
    /\ a.UptimeSuccessCount = b.UptimeSuccessCount

\* C31: On an identity that has a row, an Update whose info has no reputation
\* does not abort abnormally: it returns, and when it returns success the
\* stored latency90, audit and uptime ratios and counts are as they were.
C31_NoReputationCompletes ==
    \A c \in Callers :
        (arg[c] # Nil /\ ~EmptyNode(arg[c]) /\ pre[c] # Nil /\ arg[c].Reputation = Nil)
        => /\ pc[c] # "panicked"
           /\ (pc[c] = "idle" /\ outcome[c] = "ok")
                 => /\ HasRow(table, arg[c].Id)
                    /\ SameReputationColumns(RowOf(table, arg[c].Id), pre[c])


\* C32: Update attempts the create exactly when its existence check found no
\* row and the update exactly when it found one; an existence check that
\* failed for another reason (store error, cancellation) is followed by no
\* write and Update returns an error.
C32_BranchByExistence ==
    \A c \in Callers :
        /\ (pc[c] = "written" /\ pending[c] # Nil /\ pending[c].kind = "insert")
              => getErr[c] = "norows"
        /\ (pc[c] = "written" /\ pending[c] # Nil /\ pending[c].kind = "update")
              => getErr[c] = "nil"
        /\ (Ended(c) /\ getErr[c] \in {"ioerr", "cancelled"})
              => /\ pc[c] = "idle"
                 /\ outcome[c] # "ok"


\* caller c's last Update returned an error
UpdateFailed(c) ==
    /\ pc[c] = "idle"
    /\ outcome[c] \in {"ErrEmptyNode", "OpenErr", "CreateErr", "UniqueViolation",
                       "UpdateErr", "CommitErr", "Cancelled"}

\* C33: An Update that returns an error leaves the committed store as it was:
\* the only steps that change the table are the commit of an Update that
\* returns success and a Delete, and after a failed Update of the single
\* caller the row of its identity is what it was when Update was called.
C33_FailedUpdateWritesNothing ==
    /\ [](\A c \in Callers :
             (UpdateFailed(c) /\ arg[c] # Nil /\ arg[c].Id # ZeroId)
             => RowOf(table, arg[c].Id) = pre[c])
    /\ [][table' # table
          => \E c \in Callers :
                \/ UpdateCommit(c) /\ outcome'[c] = "ok"
                \/ \E id \in {ZeroId} \cup NodeIds : Delete(c, id)]_vars

\* C33 witness: an Update of an existing row with other values failed at its
\* commit, the row as before.
C33_Witness ==
    \E c \in Callers :
        /\ UpdateFailed(c) /\ outcome[c] = "CommitErr"
        /\ pre[c] # Nil
        /\ arg[c].Reputation # Nil
        /\ UpdatedRow(pre[c], arg[c]) # pre[c]
        /\ RowOf(table, arg[c].Id) = pre[c]


\* a step of caller c's Update
UpdateStep(c) ==
    \/ \E info \in RegistryInfos : UpdateCall(c, info)
    \/ UpdateGet(c)
    \/ UpdateCreate(c)
    \/ UpdateUpdate(c)
    \/ UpdateCommit(c)

\* C34: An Update for identity X changes at most the row of X: in each of its
\* steps the rows of every other identity stay as they are, in their order,
\* and a row of X that is there stays, with its identity and node type,
\* whatever type info carries.
C34_UpdateFrame ==
    [][\A c \in Callers :
          UpdateStep(c)
          => /\ DeleteRows(table', arg'[c].Id) = DeleteRows(table, arg'[c].Id)
             /\ HasRow(table, arg'[c].Id)
                   => /\ HasRow(table', arg'[c].Id)
                      /\ RowOf(table', arg'[c].Id).NodeType
                            = RowOf(table, arg'[c].Id).NodeType]_vars

\* C34 witness: an Update of node 1 under another type than the stored one
\* succeeded and changed its row, the type kept, node 2 stored as well.
C34_Witness ==
    \E c \in Callers :
        /\ UpdatedExisting(c)
        /\ arg[c].Type # pre[c].NodeType
        /\ RowOf(table, arg[c].Id) # pre[c]
        /\ RowOf(table, arg[c].Id).NodeType = pre[c].NodeType
        /\ \E i \in 1..Len(table) : table[i].NodeId # arg[c].Id


\* a step of one of the lookups, enumerations and selections of caller c
ReadStep(c) ==
    \/ \E id \in {ZeroId} \cup 1..2 : Get(c, id)
    \/ \E ids \in {<<2, 1>>} : GetAll(c, ids)
    \/ \E cursor \in {1}, limit \in {1} : List(c, cursor, limit)
    \/ \E offset \in {1}, limit \in {1} : Paginate(c, offset, limit)
    \/ \E id \in 1..2 : GetWalletAddress(c, id)
    \/ \E req \in {RegistryRequest, RegistryRequestNoOpts} : FilterNodesReputable(req)
    \/ FilterNodesNew

\* C35: Get, GetAll, List, Paginate, FilterNodes and GetWalletAddress are
\* read-only: whatever their arguments and whether they fail or not, the
\* rows of the store and every field of them are after the step what they
\* were before it: no step that changes the table is a step of one of them.
C35_ReadsWriteNothing ==
    [][table' # table => \A c \in Callers : ~ReadStep(c)]_vars

\* C35 witness: after a Get refused for the zero identity and a FilterNodes
\* that did not survive its request, with node 1 deleted before, the registry
\* holds what the Delete left.
C35_Witness ==
    /\ getRes # Nil /\ getRes.err = "ErrEmptyNode"
    /\ fres # Nil /\ fres.err = "panic"
    /\ delRes # Nil /\ delRes.answered /\ HasRow(delRes.before, 1)
    /\ table = DeleteRows(delRes.before, 1)


----------------------------------------------------------------------------
(* SaveBWRaw.                                                              *)

\* C36: SaveBWRaw is all-or-nothing.  While it runs the committed rows are
\* those it was called on.  With empty totals it returns an error and no
\* transaction was opened; when it returns success the raw rows are those
\* before plus one for every (action, node) pair of the tally, and the
\* timestamp write (create when isNew, update of the row otherwise) is
\* committed with them; when it returns any error no raw row and no timestamp
\* of the call is stored.
C36_AllOrNothing ==
    /\ spc # "idle" => (raw = sbefore.raw /\ stamp = sbefore.stamp)
    /\ (spc = "idle" /\ sres # "none")
          => /\ DOMAIN sarg.bwTotals = {} => (sres = "ErrEmptyTotals" /\ stx = "none")
             /\ sres = "ok"
                   => /\ stx = "committed"
                      /\ raw = sbefore.raw
                                  (+) RawRowsOf(sarg.bwTotals, sarg.latestBwa,
                                                PairsOf(sarg.bwTotals))
                      /\ stamp = IF sarg.isNew \/ sbefore.stamp # Nil
                                    THEN [Value |-> sarg.latestBwa] ELSE Nil
             /\ sres # "ok"
                   => /\ stx \in {"none", "rolledback", "aborted"}
                      /\ raw = sbefore.raw
                      /\ stamp = sbefore.stamp

\* C36 witness: a SaveBWRaw on a store with a timestamp had created some raw
\* rows when a later create failed; it returned the error, nothing stored.
C36_Witness ==
    /\ spc = "idle" /\ sres = "CreateErr"
    /\ swritten # {} /\ sleft # {}
    /\ sbefore.stamp # Nil
    /\ raw = sbefore.raw /\ stamp = sbefore.stamp

====
